---- MODULE Spec2Model ----
(***************************************************************************)
(* Model of the audio enhancement pipeline: the orchestrator              *)
(* (services/enhancer.py), the configuration selector, the noise          *)
(* reduction fallback (services/noise_reduction.py), the exporter's error *)
(* outcomes (services/exporter.py) and the command-line boundary          *)
(* (cli.py).                                                               *)
(*                                                                         *)
(* Units: quality_score is in hundredths (0..100 for 0.0..1.0), snr_db in  *)
(* dB, noise_reduction_strength in tenths (0..10 for 0.0..1.0),            *)
(* target_loudness_lufs in tenths of a LUFS (-140 for -14.0).              *)
(* An optional value (Python None / an unbound local) is a sequence of     *)
(* length 0 or 1.                                                          *)
(***************************************************************************)
EXTENDS Integers, Sequences, FiniteSets, TLC

VARIABLES
    mode,             \* "api": enhance_audio called directly; "cli": through main
    pc,               \* position of the run
    opts,             \* the command line options (cli mode)
    user_config,      \* the caller's EnhancementConfig object, <<>> before _build_config
    config,           \* enhance_audio's local `config`, <<>> before the call
    input_metrics,    \* enhance_audio's local `input_metrics`, <<>> while unbound
    output_metrics,   \* enhance_audio's local `output_metrics`, <<>> while unbound
    stages,           \* enhance_audio's local `stages`
    result,           \* the ProcessingResult returned, <<>> before the return
    raised,           \* the exception raised in this run, <<>> if none
    fault_at,         \* the position at which it was raised, "" if none
    neural_attempted, \* reduce_noise_with_fallback entered the neural path
    export_attempted, \* save_audio was called
    model_cache,      \* "deepfilternet" in _model_cache
    exit_code,        \* the process exit code, <<>> while running
    nr_call,          \* the arguments and environment of the reduce_noise_with_fallback call
    preset_store,     \* what the preset factories return on their next call
    sel_calls,        \* number of select_config calls made (selector specification)
    sel_last,         \* the latest select_config call: inputs and outputs
    sel_ref,          \* the first select_config call, kept for comparison
    audio_file,       \* the input AudioFile's descriptor, <<>> before load_audio
    heap,             \* the sample arrays allocated so far: heap[i] is the content of array i
    samples,          \* enhance_audio's local `samples`: the array it refers to, <<>> while unbound
    stage_io,         \* for each optional stage passed: `samples` before and after it
    dry_run_out,      \* what a dry run printed, <<>> if none
    compressor,       \* the compressor parameters _apply_compression computed, <<>> if not run
    output_audio,     \* enhance_audio's local `output_audio`, <<>> while unbound
    validated,        \* the AudioFile handed to the output analysis, <<>> before it
    saved,            \* the AudioFile handed to save_audio, <<>> before it
    ctor_last,        \* the latest EnhancementConfig construction: arguments and outcome
    df_available,     \* DEEPFILTERNET_AVAILABLE: the df package was imported
    cache_handle,     \* _model_cache["deepfilternet"], <<>> when the key is absent
    init_total,       \* number of handles init_df has returned in this process
    init_since_unload, \* ... of them since the latest unload_models
    cache_event,      \* the latest cache-changing event: "none", "init" or "unload"
    cache_ops,        \* number of calls made on the model cache
    cache_last,       \* the latest completed call on the model cache (sequential callers)
    threads,          \* each concurrent caller's position and locals
    handles_returned, \* the handles load_deepfilternet has returned since the latest unload
    score_in,         \* the arguments of a _calculate_quality_score call, <<>> if none
    score_out,        \* what the call returned, <<>> before it returns
    an_in,            \* the AudioFile handed to the analyzer, <<>> if none
    an_out,           \* the outcome of analyze_quality on it, <<>> before the call ends
    snr_out,          \* the outcome of estimate_snr on its mono samples, <<>> before the call ends
    nl_first,         \* the buffer a series of normalize_loudness calls started from, <<>> if none
    nl_buf,           \* the buffer the latest normalize_loudness call returned
    nl_calls,         \* number of normalize_loudness calls made
    nl_last,          \* the latest normalize_loudness call: arguments and outcome
    gr_in,            \* the arguments of a _calculate_gain_reduction call, <<>> if none
    gr_out,           \* the gain reductions it returned, <<>> before it returns
    eq_in,            \* the arguments of an apply_eq call, <<>> if none
    eq_out,           \* the outcome of the call, <<>> before it ends
    bd_in,            \* the WAV file of a load-to-export run, <<>> if none
    bd_loaded,        \* the AudioFile load_audio returned for it
    bd_output,        \* the output AudioFile enhance_audio built from it
    bd_written        \* the subtype save_audio wrote it with

bvars == <<audio_file, heap, samples, stage_io>>
rvars == <<compressor, output_audio, validated, saved>>
pvars == <<mode, pc, opts, user_config, config, input_metrics, output_metrics,
           stages, result, raised, fault_at, neural_attempted, export_attempted,
           model_cache, exit_code, nr_call, bvars, dry_run_out, rvars>>
svars == <<sel_calls, sel_last, sel_ref>>
cvars == <<ctor_last>>
mvars == <<df_available, cache_handle, init_total, init_since_unload, cache_event,
           cache_ops, cache_last, threads, handles_returned>>
avars == <<score_in, score_out, an_in, an_out, snr_out>>
lvars == <<nl_first, nl_buf, nl_calls, nl_last>>
\* The variables of the signal-processing specifications.
gvars == <<gr_in, gr_out>>
evars == <<eq_in, eq_out>>
dvars == <<bd_in, bd_loaded, bd_output, bd_written>>
xvars == <<lvars, gvars, evars, dvars>>
\* The variables of the specifications other than the pipeline's and the selector's.
ovars == <<cvars, mvars, avars, xvars>>
vars == <<mode, pc, opts, user_config, config, input_metrics, output_metrics,
          stages, result, raised, fault_at, neural_attempted, export_attempted,
          model_cache, exit_code, nr_call, preset_store, sel_calls, sel_last, sel_ref,
          audio_file, heap, samples, stage_io, dry_run_out, compressor, output_audio,
          validated, saved, ctor_last, df_available, cache_handle,
          init_total, init_since_unload, cache_event, cache_ops, cache_last, threads,
          handles_returned, score_in, score_out, an_in, an_out, snr_out,
          nl_first, nl_buf, nl_calls, nl_last, gr_in, gr_out, eq_in,
          eq_out, bd_in, bd_loaded, bd_output, bd_written>>

----------------------------------------------------------------------------
(* models/config.py *)

QualityLevels == {"auto", "minimal", "light", "standard", "aggressive"}

\* The dataclass defaults.
DefaultLoudness == -140
DefaultStrength == 5

EnhancementConfig(strength, eq, dyn, ai, preserve, loudness, level) ==
    [noise_reduction_strength |-> strength,
     eq_enabled |-> eq,
     dynamics_enabled |-> dyn,
     ai_enhancement_enabled |-> ai,
     preserve_dynamics |-> preserve,
     target_loudness_lufs |-> loudness,
     quality_level |-> level]

DefaultConfig ==
    EnhancementConfig(DefaultStrength, TRUE, TRUE, TRUE, TRUE, DefaultLoudness, "auto")

\* __post_init__: the range validation run at construction only.
ValidConfig(c) ==
    /\ 0 <= c.noise_reduction_strength /\ c.noise_reduction_strength <= 10
    /\ -600 <= c.target_loudness_lufs /\ c.target_loudness_lufs <= 0

MinimalPreset == EnhancementConfig(1, FALSE, FALSE, FALSE, TRUE, DefaultLoudness, "minimal")
LightPresetWithAi == EnhancementConfig(2, TRUE, TRUE, TRUE, TRUE, DefaultLoudness, "light")
LightPreset == EnhancementConfig(2, TRUE, TRUE, FALSE, TRUE, DefaultLoudness, "light")
StandardPreset == EnhancementConfig(5, TRUE, TRUE, TRUE, TRUE, DefaultLoudness, "standard")
AggressivePreset == EnhancementConfig(8, TRUE, TRUE, TRUE, FALSE, DefaultLoudness, "aggressive")

\* The four preset classmethods, as a table from level to the fresh instance built.
Presets ==
    [l \in {"minimal", "light", "standard", "aggressive"} |->
        CASE l = "minimal" -> MinimalPreset
          [] l = "light" -> LightPreset
          [] l = "standard" -> StandardPreset
          [] l = "aggressive" -> AggressivePreset]

----------------------------------------------------------------------------
(* models/metrics.py *)

QualityMetrics(score, snr) == [quality_score |-> score, snr_db |-> snr]

needs_ai_enhancement(m) == m.quality_score < 50 \/ m.snr_db < 20
is_high_quality(m) == m.quality_score >= 70
is_excellent_quality(m) == m.quality_score >= 80

----------------------------------------------------------------------------
(* services/enhancer.py: select_config *)

\* The if/elif chain choosing the preset.
PresetLevelSwapped(metrics) ==
    IF needs_ai_enhancement(metrics) THEN "aggressive"
    ELSE IF is_excellent_quality(metrics) THEN "minimal"
    ELSE IF is_high_quality(metrics) THEN "light"
    ELSE "standard"

PresetLevel(metrics) ==
    IF is_excellent_quality(metrics) THEN "minimal"
    ELSE IF is_high_quality(metrics) THEN "light"
    ELSE IF needs_ai_enhancement(metrics) THEN "aggressive"
    ELSE "standard"

\* The three override statements applied to the chosen preset instance.
ApplyOverridesUserWins(preset, user_config_) ==
    [preset EXCEPT
        !.target_loudness_lufs = user_config_.target_loudness_lufs,
        !.ai_enhancement_enabled = user_config_.ai_enhancement_enabled,
        !.preserve_dynamics = user_config_.preserve_dynamics]

ApplyOverridesKeepsStageFlags(preset, user_config_) ==
    [preset EXCEPT
        !.target_loudness_lufs =
            IF user_config_.target_loudness_lufs # -140
            THEN user_config_.target_loudness_lufs ELSE @,
        !.ai_enhancement_enabled =
            IF ~user_config_.ai_enhancement_enabled THEN FALSE ELSE @,
        !.preserve_dynamics =
            IF user_config_.preserve_dynamics THEN TRUE ELSE @,
        !.eq_enabled = IF ~user_config_.eq_enabled THEN FALSE ELSE @]

ApplyOverrides(preset, user_config_) ==
    [preset EXCEPT
        !.target_loudness_lufs =
            IF user_config_.target_loudness_lufs # -140
            THEN user_config_.target_loudness_lufs ELSE @,
        !.ai_enhancement_enabled =
            IF ~user_config_.ai_enhancement_enabled THEN FALSE ELSE @,
        !.preserve_dynamics =
            IF user_config_.preserve_dynamics THEN TRUE ELSE @]

select_config(store, metrics, user_config_) ==
    ApplyOverrides(store[PresetLevel(metrics)], user_config_)

\* The preset factories after a select_config call: every classmethod builds a
\* new instance with cls(...), so writing the overrides into the returned
\* instance leaves what the next call returns untouched.
StoreSharedInstance(store, level, resolved) == [store EXCEPT ![level] = resolved]

StoreAfterSelect(store, level, resolved) == store

\* The caller's config object after select_config: it is only read.
UserConfigAfterSelect(user_config_, resolved) == user_config_

----------------------------------------------------------------------------
(* models/errors.py *)

EnhancerErrorClasses ==
    {"AudioFileNotFoundError", "InvalidFormatError", "FileCorruptedError",
     "UnsupportedChannelsError", "InsufficientSpaceError", "OutputWriteError",
     "ProcessingFailedError", "ModelUnavailableError"}

\* An exception object: its class and str(e). "Exception" stands for any
\* exception that is not an EnhancerError.
Exc(cls, message) == [cls |-> cls, message |-> message]

\* The class attribute exit_code of each EnhancerError subclass.
exit_code_of(cls) ==
    CASE cls = "AudioFileNotFoundError" -> 2
      [] cls \in {"InvalidFormatError", "FileCorruptedError", "UnsupportedChannelsError"} -> 3
      [] cls \in {"InsufficientSpaceError", "OutputWriteError"} -> 5
      [] OTHER -> 4

\* What an unexpected exception inside a stage (raised by numpy, scipy, librosa,
\* noisereduce or soundfile) can look like to the handler: str(e) may be empty
\* (an AssertionError or MemoryError built without arguments) or not.
StageExceptions == {Exc("Exception", ""), Exc("Exception", "stage failed")}

----------------------------------------------------------------------------
(* models/stage.py *)

ProcessingStage_skipped_as_run(name) ==
    [name |-> name, enabled |-> TRUE, method |-> "skipped", ai_used |-> FALSE]

ProcessingStage_skipped(name) ==
    [name |-> name, enabled |-> FALSE, method |-> "skipped", ai_used |-> FALSE]

ProcessingStage_completed(name, method, ai_used) ==
    [name |-> name, enabled |-> TRUE, method |-> method, ai_used |-> ai_used]

----------------------------------------------------------------------------
(* services/ai_models.py and services/noise_reduction.py *)

\* The environment of the neural path: lib = the df package imports
\* (AI_AVAILABLE, DEEPFILTERNET_AVAILABLE), init_ok = init_df() succeeds,
\* enhance_ok = resampling and df_enhance succeed.
NeuralEnvs == [lib : BOOLEAN, init_ok : BOOLEAN, enhance_ok : BOOLEAN]

\* load_deepfilternet: returns (TRUE) from the cache or from a successful
\* init_df, raises (FALSE) otherwise.
load_deepfilternet_ok(env, cache) == env.lib /\ (cache \/ env.init_ok)

is_model_available(env, cache) ==
    IF ~env.lib THEN FALSE ELSE load_deepfilternet_ok(env, cache)

\* The cache after a call of load_deepfilternet.
CacheAfterLoad(env, cache) == cache \/ (env.lib /\ env.init_ok)

\* reduce_noise_ai: <<>> when it returns the enhanced samples, else the
\* ModelUnavailableError it raises.
reduce_noise_ai(env, cache) ==
    IF ~env.lib THEN <<Exc("ModelUnavailableError", "AI enhancement unavailable")>>
    ELSE IF ~is_model_available(env, cache)
        THEN <<Exc("ModelUnavailableError", "AI enhancement unavailable")>>
    ELSE IF ~(load_deepfilternet_ok(env, cache) /\ env.enhance_ok)
        THEN <<Exc("ModelUnavailableError", "AI enhancement unavailable")>>
    ELSE <<>>

\* reduce_noise_with_fallback: spectral is the outcome of reduce_noise_spectral
\* (<<>> when it returns, else the exception it raises). The result is the
\* exception leaving the call (<<>> if it returns) and the method tag returned.
FallbackPropagates(use_ai, env, cache, spectral) ==
    IF use_ai /\ env.lib /\ is_model_available(env, cache)
    THEN IF reduce_noise_ai(env, cache) = <<>>
         THEN [raised |-> <<>>, method |-> "deepfilternet"]
         ELSE [raised |-> reduce_noise_ai(env, cache), method |-> ""]
    ELSE IF spectral = <<>>
         THEN [raised |-> <<>>, method |-> "spectral_gating"]
         ELSE [raised |-> spectral, method |-> ""]

reduce_noise_with_fallback(use_ai, env, cache, spectral) ==
    IF use_ai /\ env.lib /\ is_model_available(env, cache)
          /\ reduce_noise_ai(env, cache) = <<>>
    THEN [raised |-> <<>>, method |-> "deepfilternet"]
    ELSE IF spectral = <<>>
         THEN [raised |-> <<>>, method |-> "spectral_gating"]
         ELSE [raised |-> spectral, method |-> ""]

\* The try block of reduce_noise_with_fallback is entered.
NeuralPathEntered(use_ai, env) == use_ai /\ env.lib

----------------------------------------------------------------------------
(* models/result.py and the return statements of enhance_audio *)

Max(a, b) == IF a >= b THEN a ELSE b

\* The descriptor of the output buffer (format is forced to "wav"): the input's
\* sample rate and channel count, its bit depth raised to 24, and the array
\* the local `samples` refers to.
OutputAudioOfInput(audio_file_, samples_) ==
    [format |-> "wav",
     sample_rate |-> audio_file_.sample_rate,
     bit_depth |-> Max(audio_file_.bit_depth, 24),
     channels |-> audio_file_.channels,
     samples |-> 1]

OutputAudioKeepsDepth(audio_file_, samples_) ==
    [format |-> "wav",
     sample_rate |-> audio_file_.sample_rate,
     bit_depth |-> audio_file_.bit_depth,
     channels |-> audio_file_.channels,
     samples |-> samples_]

OutputAudio(audio_file_, samples_) ==
    [format |-> "wav",
     sample_rate |-> audio_file_.sample_rate,
     bit_depth |-> Max(audio_file_.bit_depth, 24),
     channels |-> audio_file_.channels,
     samples |-> samples_]

\* return ProcessingResult(success=True, ...)
SuccessResult(stages_, input_metrics_, output_metrics_, output_audio_) ==
    [success |-> TRUE,
     output_file |-> <<output_audio_>>,
     input_metrics |-> input_metrics_,
     output_metrics |-> output_metrics_,
     processing_stages |-> stages_,
     error_message |-> <<>>]

\* ProcessingResult.failure: a failure result without stages or metrics.
ProcessingResult_failure(stages_, input_metrics_, e) ==
    [success |-> FALSE,
     output_file |-> <<>>,
     input_metrics |-> <<>>,
     output_metrics |-> <<>>,
     processing_stages |-> <<>>,
     error_message |-> <<e.message>>]

\* The except handler of enhance_audio: the failure result it returns.
ExceptHandler(stages_, input_metrics_, e) ==
    [success |-> FALSE,
     output_file |-> <<>>,
     input_metrics |-> input_metrics_,
     output_metrics |-> <<>>,
     processing_stages |-> stages_,
     error_message |-> <<e.message>>]

\* A method identifier as the sequence of its characters.
MethodChars(method) ==
    CASE method = "deepfilternet" ->
            <<"d", "e", "e", "p", "f", "i", "l", "t", "e", "r", "n", "e", "t">>
      [] method = "spectral_gating" ->
            <<"s", "p", "e", "c", "t", "r", "a", "l", "_", "g", "a", "t", "i", "n", "g">>
      [] method = "librosa" ->
            <<"l", "i", "b", "r", "o", "s", "a">>
      [] method = "scipy_filters" ->
            <<"s", "c", "i", "p", "y", "_", "f", "i", "l", "t", "e", "r", "s">>
      [] method = "compression_normalization" ->
            <<"c", "o", "m", "p", "r", "e", "s", "s", "i", "o", "n", "_", "n", "o", "r", "m", "a", "l", "i", "z", "a", "t", "i", "o", "n">>
      [] method = "quality_check" ->
            <<"q", "u", "a", "l", "i", "t", "y", "_", "c", "h", "e", "c", "k">>
      [] method = "soundfile" ->
            <<"s", "o", "u", "n", "d", "f", "i", "l", "e">>
      [] method = "skipped" ->
            <<"s", "k", "i", "p", "p", "e", "d">>
      [] OTHER -> <<>>

\* str.lower(): upper-case ASCII letters become lower-case, the rest is kept.
UpperCase == <<"A", "B", "C", "D", "E", "F", "G", "H", "I", "J", "K", "L", "M", "N", "O", "P", "Q", "R", "S", "T", "U", "V", "W", "X", "Y", "Z">>
LowerCase == <<"a", "b", "c", "d", "e", "f", "g", "h", "i", "j", "k", "l", "m", "n", "o", "p", "q", "r", "s", "t", "u", "v", "w", "x", "y", "z">>

LowerChar(c) ==
    IF \E k \in DOMAIN UpperCase : UpperCase[k] = c
    THEN LowerCase[CHOOSE k \in DOMAIN UpperCase : UpperCase[k] = c]
    ELSE c

lower(chars) == [k \in DOMAIN chars |-> LowerChar(chars[k])]

\* needle in hay, for strings as character sequences.
Contains(hay, needle) ==
    \E k \in 0 .. Len(hay) - Len(needle) :
        \A j \in 1 .. Len(needle) : hay[k + j] = needle[j]

ai_methods_loose == {<<"d", "e", "e", "p", "f", "i", "l", "t", "e", "r", "n", "e", "t">>, <<"a", "l">>, <<"n", "e", "u", "r", "a", "l">>}

\* ai_methods = {"deepfilternet", "ai", "neural"}
ai_methods == {<<"d", "e", "e", "p", "f", "i", "l", "t", "e", "r", "n", "e", "t">>, <<"a", "i">>, <<"n", "e", "u", "r", "a", "l">>}

\* The method identifiers the pipeline records.
MethodNames ==
    {"deepfilternet", "spectral_gating", "librosa", "scipy_filters",
     "compression_normalization", "quality_check", "soundfile", "skipped"}

\* any(m in stage.method.lower() for m in ai_methods), for each identifier.
MethodsWithAiTag ==
    {method \in MethodNames :
        \E tag \in ai_methods : Contains(lower(MethodChars(method)), tag)}

\* ProcessingResult.ai_was_used: some enabled stage's lower-cased method
\* contains one of the AI tags.
ai_was_used(result_) ==
    \E k \in DOMAIN result_.processing_stages :
        /\ result_.processing_stages[k].enabled
        /\ result_.processing_stages[k].method \in MethodsWithAiTag

----------------------------------------------------------------------------
(* services/enhancer.py: enhance_audio, one action per pipeline stage *)

\* What analyze_quality can return (score thresholds 50, 70, 80; SNR threshold 20).
Scores == {49, 50, 69, 70, 79, 80}
Snrs == {19, 20}
MetricsSpace == {QualityMetrics(sc, sn) : sc \in Scores, sn \in Snrs}
OutputMetricsSpace == {QualityMetrics(50, 20), QualityMetrics(80, 40)}

\* The configs a caller of enhance_audio can construct (all pass __post_init__).
ApiConfigs ==
    {c \in [noise_reduction_strength : {0, DefaultStrength},
            eq_enabled : BOOLEAN,
            dynamics_enabled : BOOLEAN,
            ai_enhancement_enabled : BOOLEAN,
            preserve_dynamics : BOOLEAN,
            target_loudness_lufs : {DefaultLoudness},
            quality_level : QualityLevels] : ValidConfig(c)}
        \cup {MinimalPreset, LightPreset, StandardPreset, AggressivePreset}

Some(x) == <<x>>
None == <<>>

\* The exception e leaves the try block at the current position: the handler
\* builds the failure result and enhance_audio returns it.
Fail(e) ==
    /\ raised' = Some(e)
    /\ fault_at' = pc
    /\ result' = Some(ExceptHandler(stages, input_metrics, e))
    /\ pc' = "returned"

NoFail == UNCHANGED <<result, raised, fault_at>>

\* The input AudioFile: bits per sample, channels, sample rate in Hz.
AudioFile(bit_depth, channels, sample_rate) ==
    [bit_depth |-> bit_depth, channels |-> channels, sample_rate |-> sample_rate]

\* The inputs tried: a bit depth below, at and above 24; mono and stereo; a
\* sample rate above every filter's frequency, one whose Nyquist frequency is
\* below the 12 kHz shelf, and one whose Nyquist frequency is below all four.
AudioFiles == {AudioFile(16, 1, 44100), AudioFile(24, 2, 16000), AudioFile(32, 1, 48)}

\* The content of a sample array is the sequence of the operations applied to
\* the original samples; the caller's array (heap[1]) starts with none.
OriginalSamples == <<>>

\* A numpy operation returning a new array holding `data`.
NewArray(heap_, data) == [heap |-> Append(heap_, data), id |-> Len(heap_) + 1]

\* An operation returning its argument array itself.
SameArray(heap_, id) == [heap |-> heap_, id |-> id]

\* samples = audio_file.samples.copy()
SamplesCopyAliased(heap_) == SameArray(heap_, 1)

SamplesCopy(heap_) == NewArray(heap_, heap_[1])

\* The four filters of apply_eq in the order applied, each with the frequency
\* its Nyquist guard compares.
EqBandsReordered ==
    <<[name |-> "highpass", cutoff |-> 30],
      [name |-> "peak", cutoff |-> 3000],
      [name |-> "low_shelf", cutoff |-> 100],
      [name |-> "high_shelf", cutoff |-> 12000]>>

EqBands ==
    <<[name |-> "highpass", cutoff |-> 30],
      [name |-> "low_shelf", cutoff |-> 100],
      [name |-> "peak", cutoff |-> 3000],
      [name |-> "high_shelf", cutoff |-> 12000]>>

\* The filters that run at sample rate sr: a filter whose frequency is at or
\* above sr / 2 returns its argument.
RECURSIVE EqApplied(_, _)
EqApplied(bands, sr) ==
    IF bands = <<>> THEN <<>>
    ELSE (IF 2 * Head(bands).cutoff >= sr THEN <<>> ELSE <<Head(bands).name>>)
            \o EqApplied(Tail(bands), sr)

\* apply_eq: every filter that runs returns a new array (the last one is kept).
apply_eq(heap_, id, sr, config_) ==
    IF ~config_.eq_enabled THEN SameArray(heap_, id)
    ELSE IF EqApplied(EqBands, sr) = <<>> THEN SameArray(heap_, id)
    ELSE NewArray(heap_, heap_[id] \o EqApplied(EqBands, sr))

\* compress_dynamics: samples * gain_reduction is a new array.
compress_dynamics(heap_, id, config_) ==
    IF ~config_.dynamics_enabled THEN SameArray(heap_, id)
    ELSE NewArray(heap_, Append(heap_[id], "compress"))

\* compress_dynamics: the compressor settings chosen by preserve_dynamics
\* (threshold and knee in dB, attack and release in ms).
CompressorSettings(config_) ==
    IF config_.preserve_dynamics
    THEN [threshold_db |-> -18, ratio |-> 2, attack_ms |-> 10, release_ms |-> 100,
          knee_db |-> 6]
    ELSE [threshold_db |-> -24, ratio |-> 4, attack_ms |-> 5, release_ms |-> 50,
          knee_db |-> 3]

\* The default of _apply_compression's parameter sr.
DefaultCompressionRate == 44100

\* _apply_compression: attack_samples = int(sr * attack_ms / 1000) and
\* release_samples = int(sr * release_ms / 1000).
apply_compression_lengths(settings, sr) ==
    [attack_samples |-> (sr * settings.attack_ms) \div 1000,
     release_samples |-> (sr * settings.release_ms) \div 1000]

\* The compressor as compress_dynamics runs it: the call of _apply_compression
\* passes no sr, so the lengths are computed at the default rate.
CompressorRun(config_) ==
    [settings |-> CompressorSettings(config_),
     sr |-> DefaultCompressionRate,
     lengths |-> apply_compression_lengths(CompressorSettings(config_),
                                           DefaultCompressionRate)]

\* normalize_loudness: a silent buffer (no loudness estimate) is returned as
\* it is, any other is scaled and soft-clipped into a new array.
normalize_loudness(heap_, id, silent) ==
    IF silent THEN SameArray(heap_, id)
    ELSE NewArray(heap_, Append(heap_[id], "normalize"))

\* What an optional stage did to the local `samples`.
StageIo(name, executed, heap_, id, after) ==
    [name |-> name,
     executed |-> executed,
     before |-> [id |-> id, data |-> heap_[id]],
     after |-> [id |-> after.id, data |-> after.heap[after.id]]]

\* Stage 1: analyze the input.
AnalyzeInput ==
    /\ pc = "analysis"
    /\ \/ \E m \in MetricsSpace :
            /\ input_metrics' = Some(m)
            /\ stages' = Append(stages, ProcessingStage_completed("analysis", "librosa", FALSE))
            /\ pc' = "select"
            /\ NoFail
       \/ \E e \in StageExceptions :
            /\ Fail(e)
            /\ UNCHANGED <<input_metrics, stages>>
    /\ UNCHANGED <<mode, opts, user_config, config, output_metrics, neural_attempted,
                   export_attempted, model_cache, exit_code, nr_call, bvars,
                   preset_store, svars, ovars, dry_run_out, rvars>>

\* The stage records the config selection appends: none.
SelectStageRecords(level) == <<>>

\* Stage 2: resolve the config when the level is auto; copy the samples.
SelectStage ==
    /\ pc = "select"
    /\ IF config[1].quality_level = "auto"
       THEN LET resolved == select_config(preset_store, input_metrics[1], config[1])
            IN /\ config' = Some(resolved)
               /\ preset_store' =
                     StoreAfterSelect(preset_store, PresetLevel(input_metrics[1]), resolved)
               /\ user_config' = Some(UserConfigAfterSelect(user_config[1], resolved))
       ELSE UNCHANGED <<config, preset_store, user_config>>
    /\ \/ /\ stages' = stages \o SelectStageRecords(config[1].quality_level)
          /\ heap' = SamplesCopy(heap).heap
          /\ samples' = Some(SamplesCopy(heap).id)
          /\ pc' = "noise_reduction"
          /\ NoFail
       \/ \E e \in StageExceptions :   \* audio_file.samples.copy() raises
            /\ Fail(e)
            /\ UNCHANGED <<stages, heap, samples>>
    /\ UNCHANGED <<mode, opts, input_metrics, output_metrics, neural_attempted,
                   export_attempted, model_cache, exit_code, nr_call, audio_file,
                   stage_io, svars, ovars, dry_run_out, rvars>>

\* The orchestrator's decision to request the neural path.
UseAiIgnoringMetrics(config_, metrics) == config_.ai_enhancement_enabled

UseAi(config_, metrics) ==
    config_.ai_enhancement_enabled /\ needs_ai_enhancement(metrics)

\* Stage 3: noise reduction.
NoiseReductionStage ==
    /\ pc = "noise_reduction"
    /\ IF config[1].noise_reduction_strength > 0
       THEN \E env \in NeuralEnvs, spectral \in {None} \cup {Some(e) : e \in StageExceptions} :
              LET use_ai == UseAi(config[1], input_metrics[1])
                  out == reduce_noise_with_fallback(use_ai, env, model_cache, spectral)
              IN /\ nr_call' = Some([use_ai |-> use_ai, env |-> env,
                                     cache |-> model_cache, spectral |-> spectral])
                 /\ neural_attempted' = NeuralPathEntered(use_ai, env)
                 /\ model_cache' = IF NeuralPathEntered(use_ai, env)
                                   THEN CacheAfterLoad(env, model_cache)
                                   ELSE model_cache
                 /\ IF out.raised = None
                    THEN LET reduced == NewArray(heap, Append(heap[samples[1]], out.method))
                         IN /\ stages' = Append(stages,
                                  ProcessingStage_completed("noise_reduction", out.method,
                                                            out.method = "deepfilternet"))
                            /\ heap' = reduced.heap
                            /\ samples' = Some(reduced.id)
                            /\ stage_io' = Append(stage_io,
                                  StageIo("noise_reduction", TRUE, heap, samples[1], reduced))
                            /\ pc' = "spectral"
                            /\ NoFail
                    ELSE /\ Fail(out.raised[1])
                         /\ UNCHANGED <<stages, heap, samples, stage_io>>
       ELSE /\ stages' = Append(stages, ProcessingStage_skipped("noise_reduction"))
            /\ stage_io' = Append(stage_io,
                  StageIo("noise_reduction", FALSE, heap, samples[1],
                          SameArray(heap, samples[1])))
            /\ pc' = "spectral"
            /\ NoFail
            /\ UNCHANGED <<nr_call, neural_attempted, model_cache, heap, samples>>
    /\ UNCHANGED <<mode, opts, user_config, config, input_metrics, output_metrics,
                   export_attempted, exit_code, audio_file, preset_store, svars, ovars, dry_run_out, rvars>>

\* Stage 4: spectral enhancement.
SpectralStage ==
    /\ pc = "spectral"
    /\ IF config[1].eq_enabled
       THEN \/ LET eq == apply_eq(heap, samples[1], audio_file[1].sample_rate, config[1])
               IN /\ stages' = Append(stages,
                        ProcessingStage_completed("spectral", "scipy_filters", FALSE))
                  /\ heap' = eq.heap
                  /\ samples' = Some(eq.id)
                  /\ stage_io' = Append(stage_io,
                        StageIo("spectral", TRUE, heap, samples[1], eq))
                  /\ pc' = "dynamics"
                  /\ NoFail
            \/ \E e \in StageExceptions :
                  Fail(e) /\ UNCHANGED <<stages, heap, samples, stage_io>>
       ELSE /\ stages' = Append(stages, ProcessingStage_skipped("spectral"))
            /\ stage_io' = Append(stage_io,
                  StageIo("spectral", FALSE, heap, samples[1], SameArray(heap, samples[1])))
            /\ pc' = "dynamics"
            /\ NoFail
            /\ UNCHANGED <<heap, samples>>
    /\ UNCHANGED <<mode, opts, user_config, config, input_metrics, output_metrics,
                   neural_attempted, export_attempted, model_cache, exit_code, nr_call,
                   audio_file, preset_store, svars, ovars, dry_run_out, rvars>>

\* Stage 5: dynamics (compression, then loudness normalization).
DynamicsStage ==
    /\ pc = "dynamics"
    /\ IF config[1].dynamics_enabled
       THEN \/ \E silent \in BOOLEAN :
                  LET compressed == compress_dynamics(heap, samples[1], config[1])
                      normalized == normalize_loudness(compressed.heap, compressed.id, silent)
                  IN /\ stages' = Append(stages,
                           ProcessingStage_completed("dynamics",
                                                     "compression_normalization", FALSE))
                     /\ heap' = normalized.heap
                     /\ samples' = Some(normalized.id)
                     /\ stage_io' = Append(stage_io,
                           StageIo("dynamics", TRUE, heap, samples[1], normalized))
                     /\ compressor' = Some(CompressorRun(config[1]))
                     /\ pc' = "validation"
                     /\ NoFail
            \/ \E e \in StageExceptions :
                  Fail(e) /\ UNCHANGED <<stages, heap, samples, stage_io, compressor>>
       ELSE /\ stages' = Append(stages, ProcessingStage_skipped("dynamics"))
            /\ stage_io' = Append(stage_io,
                  StageIo("dynamics", FALSE, heap, samples[1], SameArray(heap, samples[1])))
            /\ pc' = "validation"
            /\ NoFail
            /\ UNCHANGED <<heap, samples, compressor>>
    /\ UNCHANGED <<mode, opts, user_config, config, input_metrics, output_metrics,
                   neural_attempted, export_attempted, model_cache, exit_code, nr_call,
                   audio_file, preset_store, svars, ovars, dry_run_out, output_audio,
                   validated, saved>>

\* Stage 6: build the output AudioFile and analyze it.
ValidationStage ==
    /\ pc = "validation"
    /\ output_audio' = Some(OutputAudio(audio_file[1], samples[1]))
    /\ validated' = output_audio'
    /\ \/ \E m \in OutputMetricsSpace :
            /\ output_metrics' = Some(m)
            /\ stages' = Append(stages,
                  ProcessingStage_completed("validation", "quality_check", FALSE))
            /\ pc' = "export"
            /\ NoFail
       \/ \E e \in StageExceptions :
            /\ Fail(e)
            /\ UNCHANGED <<output_metrics, stages>>
    /\ UNCHANGED <<mode, opts, user_config, config, input_metrics, neural_attempted,
                   export_attempted, model_cache, exit_code, nr_call, bvars,
                   preset_store, svars, ovars, dry_run_out, compressor, saved>>

\* What save_audio can raise: InsufficientSpaceError from the disk-space check,
\* OutputWriteError from the write, or any other exception (from mkdir).
SaveAudioExceptions ==
    {Exc("InsufficientSpaceError", "Insufficient disk space for output file"),
     Exc("OutputWriteError", "Failed to write output file")}
        \cup StageExceptions

\* output_audio = AudioFile(path=output_path, ...): the descriptor of the
\* result, rebuilt after the save with the path written and the local `samples`.
FinalOutputAudio(output_audio_, samples_) ==
    [format |-> "wav",
     sample_rate |-> output_audio_.sample_rate,
     bit_depth |-> output_audio_.bit_depth,
     channels |-> output_audio_.channels,
     samples |-> samples_]

\* Stage 7: export, then the success return.
ExportStage ==
    /\ pc = "export"
    /\ export_attempted' = TRUE
    /\ saved' = output_audio
    /\ \/ /\ stages' = Append(stages, ProcessingStage_completed("export", "soundfile", FALSE))
          /\ output_audio' = Some(FinalOutputAudio(output_audio[1], samples[1]))
          /\ result' = Some(SuccessResult(stages', input_metrics, output_metrics,
                                           output_audio'[1]))
          /\ pc' = "returned"
          /\ UNCHANGED <<raised, fault_at>>
       \/ \E e \in SaveAudioExceptions :
            /\ Fail(e)
            /\ UNCHANGED <<stages, output_audio>>
    /\ UNCHANGED <<mode, opts, user_config, config, input_metrics, output_metrics,
                   neural_attempted, model_cache, exit_code, nr_call, bvars,
                   preset_store, svars, ovars, dry_run_out, compressor, validated>>

----------------------------------------------------------------------------
(* cli.py: main *)

EXIT_SUCCESS == 0
EXIT_NOT_FOUND == 2
EXIT_INVALID_FORMAT == 3
EXIT_PROCESSING_FAILED == 4

\* The option values click can hand to main: --quality is one of four choices,
\* --loudness is any float. --preserve-dynamics is declared is_flag=True with
\* default=True and no flag_value: without -d main receives True; with -d it
\* receives the flag value click derives, which is `not default` (False) in
\* the click releases that compute it from the default and True in those that
\* take a flag's value to be True.
CliOptions ==
    [quality : {"auto", "light", "standard", "aggressive"},
     no_ai : BOOLEAN,
     preserve_dynamics : BOOLEAN,
     loudness : {-230, DefaultLoudness, 50},
     dry_run : BOOLEAN]

build_config(quality, no_ai, preserve_dynamics, loudness) ==
    LET base == IF quality = "light" THEN LightPreset
                ELSE IF quality = "standard" THEN StandardPreset
                ELSE IF quality = "aggressive" THEN AggressivePreset
                ELSE [DefaultConfig EXCEPT !.quality_level = "auto"]
    IN [base EXCEPT !.ai_enhancement_enabled = ~no_ai,
                    !.preserve_dynamics = preserve_dynamics,
                    !.target_loudness_lufs = loudness]

\* The chain of except clauses of main: the exit code for an exception e.
main_exit_code(e) ==
    IF e.cls = "AudioFileNotFoundError" THEN EXIT_NOT_FOUND
    ELSE IF e.cls = "InvalidFormatError" THEN EXIT_INVALID_FORMAT
    ELSE IF e.cls \in EnhancerErrorClasses THEN exit_code_of(e.cls)
    ELSE EXIT_PROCESSING_FAILED

\* The exit code after enhance_audio has returned its result.
result_exit_code(result_) ==
    IF ~result_.success THEN EXIT_PROCESSING_FAILED ELSE EXIT_SUCCESS

\* An exception e reaches main's handlers at the current position.
CliRaise(e) ==
    /\ raised' = Some(e)
    /\ fault_at' = pc
    /\ exit_code' = Some(main_exit_code(e))
    /\ pc' = "exited"

\* input_path.exists() and validate_wav_format.
CliValidate ==
    /\ pc = "cli_validate"
    /\ \/ /\ pc' = "cli_load"
          /\ UNCHANGED <<raised, fault_at, exit_code>>
       \/ \E e \in {Exc("AudioFileNotFoundError", "Input file not found"),
                    Exc("InvalidFormatError", "Input file is not a valid WAV file")} :
            CliRaise(e)
    /\ UNCHANGED <<mode, opts, user_config, config, input_metrics, output_metrics,
                   stages, result, neural_attempted, export_attempted, model_cache,
                   nr_call, bvars, preset_store, svars, ovars, dry_run_out, rvars>>

\* load_audio.
CliLoad ==
    /\ pc = "cli_load"
    /\ \/ /\ \E a \in AudioFiles : audio_file' = Some(a)
          /\ heap' = <<OriginalSamples>>
          /\ pc' = "cli_analyze"
          /\ UNCHANGED <<raised, fault_at, exit_code>>
       \/ \E e \in {Exc("FileCorruptedError", "Input file appears to be corrupted"),
                    Exc("UnsupportedChannelsError", "Only mono and stereo audio supported")} :
            /\ CliRaise(e)
            /\ UNCHANGED <<audio_file, heap>>
    /\ UNCHANGED <<mode, opts, user_config, config, input_metrics, output_metrics,
                   stages, result, neural_attempted, export_attempted, model_cache,
                   nr_call, samples, stage_io, preset_store, svars, ovars, dry_run_out, rvars>>

\* _display_dry_run_info: the level and the AI line it prints.
display_dry_run_level_swapped(metrics, quality) ==
    IF quality = "auto" THEN PresetLevelSwapped(metrics) ELSE quality

display_dry_run_level(metrics, quality) ==
    IF quality = "auto"
    THEN IF is_excellent_quality(metrics) THEN "minimal"
         ELSE IF is_high_quality(metrics) THEN "light"
         ELSE IF needs_ai_enhancement(metrics) THEN "aggressive"
         ELSE "standard"
    ELSE quality

display_dry_run_ai(metrics, no_ai) ==
    IF needs_ai_enhancement(metrics) /\ ~no_ai THEN "recommended"
    ELSE IF ~no_ai THEN "not needed"
    ELSE "disabled"

\* _output_dry_run_json: recommended.quality_level and recommended.ai_enhancement.
output_dry_run_json_level(metrics, quality) ==
    IF quality # "auto" THEN quality
    ELSE IF is_excellent_quality(metrics) THEN "minimal"
    ELSE IF is_high_quality(metrics) THEN "light"
    ELSE IF needs_ai_enhancement(metrics) THEN "aggressive"
    ELSE "standard"

output_dry_run_json_ai(metrics, no_ai) == needs_ai_enhancement(metrics) /\ ~no_ai

\* What the dry run prints: the text form or, with --json, the JSON form.
DryRunOutput(json_output, metrics, quality, no_ai) ==
    IF json_output
    THEN [form |-> "json",
          metrics |-> metrics,
          level |-> output_dry_run_json_level(metrics, quality),
          ai_str |-> None,
          ai_flag |-> Some(output_dry_run_json_ai(metrics, no_ai))]
    ELSE [form |-> "text",
          metrics |-> metrics,
          level |-> display_dry_run_level(metrics, quality),
          ai_str |-> Some(display_dry_run_ai(metrics, no_ai)),
          ai_flag |-> None]

\* main's own analyze_quality call, and the dry-run return.
CliAnalyze ==
    /\ pc = "cli_analyze"
    /\ \/ /\ IF opts[1].dry_run
             THEN /\ \E m \in MetricsSpace, json_output \in BOOLEAN :
                        dry_run_out' = Some(DryRunOutput(json_output, m, opts[1].quality,
                                                         opts[1].no_ai))
                  /\ pc' = "exited"
                  /\ exit_code' = Some(EXIT_SUCCESS)
             ELSE /\ pc' = "cli_build"
                  /\ UNCHANGED <<exit_code, dry_run_out>>
          /\ UNCHANGED <<raised, fault_at>>
       \/ \E e \in StageExceptions : CliRaise(e) /\ UNCHANGED dry_run_out
    /\ UNCHANGED <<mode, opts, user_config, config, input_metrics, output_metrics,
                   stages, result, neural_attempted, export_attempted, model_cache,
                   nr_call, bvars, preset_store, svars, ovars, rvars>>

\* _build_config, then the call of enhance_audio.
CliBuildConfig ==
    /\ pc = "cli_build"
    /\ LET c == build_config(opts[1].quality, opts[1].no_ai,
                             opts[1].preserve_dynamics, opts[1].loudness)
       IN user_config' = Some(c) /\ config' = Some(c)
    /\ pc' = "analysis"
    /\ UNCHANGED <<mode, opts, input_metrics, output_metrics, stages, result, raised,
                   fault_at, neural_attempted, export_attempted, model_cache, exit_code,
                   nr_call, bvars, preset_store, svars, ovars, dry_run_out, rvars>>

\* main after enhance_audio returned: report the result and exit.
CliReport ==
    /\ pc = "returned"
    /\ mode = "cli"
    /\ exit_code' = Some(result_exit_code(result[1]))
    /\ pc' = "exited"
    /\ UNCHANGED <<mode, opts, user_config, config, input_metrics, output_metrics,
                   stages, result, raised, fault_at, neural_attempted, export_attempted,
                   model_cache, nr_call, bvars, preset_store, svars, ovars, dry_run_out, rvars>>

----------------------------------------------------------------------------
(* The pipeline specification: one run of enhance_audio, called directly or
   through the command line. *)

\* No EnhancementConfig construction has been recorded.
ConstructIdle == ctor_last = None

\* No analyzer call has been made.
AnalyzerIdle ==
    /\ score_in = None
    /\ score_out = None
    /\ an_in = None
    /\ an_out = None
    /\ snr_out = None

\* No normalize_loudness call has been made.
LoudnessIdle ==
    /\ nl_first = None
    /\ nl_buf = None
    /\ nl_calls = 0
    /\ nl_last = None

DepthIdle ==
    /\ bd_in = None
    /\ bd_loaded = None
    /\ bd_output = None
    /\ bd_written = None

\* No call of the signal-processing specifications has been made.
DspIdle ==
    /\ LoudnessIdle
    /\ gr_in = None
    /\ gr_out = None
    /\ eq_in = None
    /\ eq_out = None
    /\ DepthIdle

\* The callers of the model cache (services/ai_models.py) in the concurrent
\* specification.
Threads == {"t1", "t2"}

\* A caller outside load_deepfilternet.
ThreadIdle == [pc |-> "idle", op |-> "", local |-> None, calls |-> 0]

\* The model cache as the module is imported (_model_cache = {}), no call made.
CacheIdle ==
    /\ df_available = FALSE
    /\ cache_handle = None
    /\ init_total = 0
    /\ init_since_unload = 0
    /\ cache_event = "none"
    /\ cache_ops = 0
    /\ cache_last = None
    /\ threads = [t \in Threads |-> ThreadIdle]
    /\ handles_returned = {}

Init ==
    /\ \/ /\ mode = "api"
          /\ opts = None
          /\ \E c \in ApiConfigs : user_config = Some(c) /\ config = Some(c)
          /\ \E a \in AudioFiles : audio_file = Some(a)
          /\ heap = <<OriginalSamples>>
          /\ pc = "analysis"
       \/ /\ mode = "cli"
          /\ \E o \in CliOptions : opts = Some(o)
          /\ user_config = None
          /\ config = None
          /\ audio_file = None
          /\ heap = <<>>
          /\ pc = "cli_validate"
    /\ input_metrics = None
    /\ output_metrics = None
    /\ stages = <<>>
    /\ result = None
    /\ raised = None
    /\ fault_at = ""
    /\ neural_attempted = FALSE
    /\ export_attempted = FALSE
    /\ model_cache = FALSE
    /\ exit_code = None
    /\ nr_call = None
    /\ samples = None
    /\ stage_io = <<>>
    /\ dry_run_out = None
    /\ compressor = None
    /\ output_audio = None
    /\ validated = None
    /\ saved = None
    /\ preset_store = Presets
    /\ sel_calls = 0
    /\ sel_last = None
    /\ sel_ref = None
    /\ ConstructIdle
    /\ CacheIdle
    /\ AnalyzerIdle
    /\ DspIdle

Next ==
    \/ CliValidate
    \/ CliLoad
    \/ CliAnalyze
    \/ CliBuildConfig
    \/ AnalyzeInput
    \/ SelectStage
    \/ NoiseReductionStage
    \/ SpectralStage
    \/ DynamicsStage
    \/ ValidationStage
    \/ ExportStage
    \/ CliReport

Spec == Init /\ [][Next]_vars

----------------------------------------------------------------------------
(* The selector specification: a series of select_config calls in one process. *)

MaxCalls == 3

\* The user configs select_config is called with.
SelUserConfigs ==
    [noise_reduction_strength : {DefaultStrength},
     eq_enabled : {TRUE},
     dynamics_enabled : {TRUE},
     ai_enhancement_enabled : BOOLEAN,
     preserve_dynamics : BOOLEAN,
     target_loudness_lufs : {DefaultLoudness, -230},
     quality_level : {"auto"}]

SelInit ==
    /\ mode = "select"
    /\ pc = "idle"
    /\ opts = None
    /\ user_config = None
    /\ config = None
    /\ input_metrics = None
    /\ output_metrics = None
    /\ stages = <<>>
    /\ result = None
    /\ raised = None
    /\ fault_at = ""
    /\ neural_attempted = FALSE
    /\ export_attempted = FALSE
    /\ model_cache = FALSE
    /\ exit_code = None
    /\ nr_call = None
    /\ audio_file = None
    /\ heap = <<>>
    /\ samples = None
    /\ stage_io = <<>>
    /\ dry_run_out = None
    /\ compressor = None
    /\ output_audio = None
    /\ validated = None
    /\ saved = None
    /\ preset_store = Presets
    /\ sel_calls = 0
    /\ sel_last = None
    /\ sel_ref = None
    /\ ConstructIdle
    /\ CacheIdle
    /\ AnalyzerIdle
    /\ DspIdle

SelectCall ==
    /\ sel_calls < MaxCalls
    /\ \E m \in MetricsSpace, u \in SelUserConfigs :
          LET resolved == select_config(preset_store, m, u)
              call == [metrics |-> m,
                       user_config |-> u,
                       user_after |-> UserConfigAfterSelect(u, resolved),
                       resolved |-> resolved]
          IN /\ sel_last' = Some(call)
             /\ sel_ref' = IF sel_ref = None THEN Some(call) ELSE sel_ref
             /\ preset_store' = StoreAfterSelect(preset_store, PresetLevel(m), resolved)
    /\ sel_calls' = sel_calls + 1
    /\ UNCHANGED <<pvars, ovars>>

SelNext == SelectCall

SpecSelect == SelInit /\ [][SelNext]_vars

----------------------------------------------------------------------------
(* The construction specification: EnhancementConfig(...) and the preset
   classmethods, each call checked by __post_init__. *)

\* No pipeline run and no select_config call is in progress.
PipelineIdle ==
    /\ mode = "none"
    /\ pc = "idle"
    /\ opts = None
    /\ user_config = None
    /\ config = None
    /\ input_metrics = None
    /\ output_metrics = None
    /\ stages = <<>>
    /\ result = None
    /\ raised = None
    /\ fault_at = ""
    /\ neural_attempted = FALSE
    /\ export_attempted = FALSE
    /\ model_cache = FALSE
    /\ exit_code = None
    /\ nr_call = None
    /\ audio_file = None
    /\ heap = <<>>
    /\ samples = None
    /\ stage_io = <<>>
    /\ dry_run_out = None
    /\ compressor = None
    /\ output_audio = None
    /\ validated = None
    /\ saved = None
    /\ preset_store = Presets

SelectorIdle ==
    /\ sel_calls = 0
    /\ sel_last = None
    /\ sel_ref = None

\* __post_init__: <<>> when it returns, else the ValueError it raises.
post_init_exclusive(c) ==
    IF ~(0 < c.noise_reduction_strength /\ c.noise_reduction_strength < 10)
    THEN Some(Exc("ValueError", "noise_reduction_strength must be between 0.0 and 1.0"))
    ELSE IF ~(-600 < c.target_loudness_lufs /\ c.target_loudness_lufs < 0)
    THEN Some(Exc("ValueError", "target_loudness_lufs must be between -60.0 and 0.0"))
    ELSE None

post_init(c) ==
    IF ~(0 <= c.noise_reduction_strength /\ c.noise_reduction_strength <= 10)
    THEN Some(Exc("ValueError", "noise_reduction_strength must be between 0.0 and 1.0"))
    ELSE IF ~(-600 <= c.target_loudness_lufs /\ c.target_loudness_lufs <= 0)
    THEN Some(Exc("ValueError", "target_loudness_lufs must be between -60.0 and 0.0"))
    ELSE None

\* The argument values tried: around and inside both ranges.
CtorStrengths == -1 .. 11
CtorLoudnesses == {-601, -600, -599, DefaultLoudness, -1, 0, 1, 50}

\* A construction call: the dataclass __init__ stores the fields, then
\* __post_init__ runs; the object exists for the caller only if it returns.
ConstructCall(via, c) ==
    [via |-> via,
     args |-> c,
     raised |-> post_init(c),
     object |-> IF post_init(c) = None THEN Some(c) ELSE None]

\* EnhancementConfig(noise_reduction_strength=..., target_loudness_lufs=...).
Construct ==
    /\ \E st \in CtorStrengths, l \in CtorLoudnesses :
          ctor_last' = Some(ConstructCall("init",
              [DefaultConfig EXCEPT !.noise_reduction_strength = st,
                                    !.target_loudness_lufs = l]))
    /\ UNCHANGED <<pvars, preset_store, svars, xvars, mvars, avars>>

\* EnhancementConfig.minimal(), .light(), .standard(), .aggressive().
ConstructPreset ==
    /\ \E level \in DOMAIN Presets :
          ctor_last' = Some(ConstructCall(level, Presets[level]))
    /\ UNCHANGED <<pvars, preset_store, svars, xvars, mvars, avars>>

ConstructInit ==
    /\ PipelineIdle
    /\ SelectorIdle
    /\ ConstructIdle
    /\ CacheIdle
    /\ AnalyzerIdle
    /\ DspIdle

ConstructNext == Construct \/ ConstructPreset

SpecConstruct == ConstructInit /\ [][ConstructNext]_vars

----------------------------------------------------------------------------
(* The model cache specifications (services/ai_models.py): a sequential series
   of load_deepfilternet, is_model_available and unload_models calls, and two
   threads calling them concurrently. A handle is the number of the init_df
   call that returned it. *)

MaxCacheOps == 6

\* load_deepfilternet as one call: the exception raised (<<>> if none), the
\* handle returned, the cache afterwards and whether init_df returned a handle.
load_deepfilternet_uncached(available, cache, init_ok, fresh) ==
    IF ~available
    THEN [raised |-> Some(Exc("RuntimeError", "DeepFilterNet is not installed")),
          ret |-> None, cache |-> cache, inited |-> FALSE]
    ELSE IF init_ok
    THEN [raised |-> None, ret |-> Some(fresh), cache |-> cache, inited |-> TRUE]
    ELSE [raised |-> Some(Exc("RuntimeError", "Failed to load DeepFilterNet model")),
          ret |-> None, cache |-> cache, inited |-> FALSE]

load_deepfilternet(available, cache, init_ok, fresh) ==
    IF ~available
    THEN [raised |-> Some(Exc("RuntimeError", "DeepFilterNet is not installed")),
          ret |-> None, cache |-> cache, inited |-> FALSE]
    ELSE IF cache # None
    THEN [raised |-> None, ret |-> cache, cache |-> cache, inited |-> FALSE]
    ELSE IF init_ok
    THEN [raised |-> None, ret |-> Some(fresh), cache |-> Some(fresh), inited |-> TRUE]
    ELSE [raised |-> Some(Exc("RuntimeError", "Failed to load DeepFilterNet model")),
          ret |-> None, cache |-> cache, inited |-> FALSE]

\* is_model_available as one call: it returns whether load_deepfilternet
\* returned, and swallows what it raises.
is_model_available_call(available, cache, init_ok, fresh) ==
    IF ~available
    THEN [raised |-> None, ret |-> FALSE, cache |-> cache, inited |-> FALSE]
    ELSE LET loaded == load_deepfilternet(available, cache, init_ok, fresh)
         IN [raised |-> None, ret |-> (loaded.raised = None),
             cache |-> loaded.cache, inited |-> loaded.inited]

\* unload_models: _model_cache.clear().
unload_models(cache) == None

\* The record of a completed call.
CacheCall(op, before, out) ==
    [op |-> op, before |-> before, raised |-> out.raised, ret |-> out.ret,
     inited |-> out.inited]

\* The process starts with the df package importable or not.
CacheInit ==
    /\ PipelineIdle
    /\ SelectorIdle
    /\ ConstructIdle
    /\ AnalyzerIdle
    /\ DspIdle
    /\ df_available \in BOOLEAN
    /\ cache_handle = None
    /\ init_total = 0
    /\ init_since_unload = 0
    /\ cache_event = "none"
    /\ cache_ops = 0
    /\ cache_last = None
    /\ threads = [t \in Threads |-> ThreadIdle]
    /\ handles_returned = {}

LoadCall ==
    /\ cache_ops < MaxCacheOps
    /\ \E init_ok \in BOOLEAN :
          LET out == load_deepfilternet(df_available, cache_handle, init_ok, init_total + 1)
          IN /\ cache_handle' = out.cache
             /\ cache_last' = Some(CacheCall("load", cache_handle, out))
             /\ init_total' = IF out.inited THEN init_total + 1 ELSE init_total
             /\ init_since_unload' =
                   IF out.inited THEN init_since_unload + 1 ELSE init_since_unload
             /\ cache_event' = IF out.inited THEN "init" ELSE cache_event
    /\ cache_ops' = cache_ops + 1
    /\ UNCHANGED <<pvars, preset_store, svars, xvars, cvars, avars, df_available, threads,
                   handles_returned>>

IsAvailableCall ==
    /\ cache_ops < MaxCacheOps
    /\ \E init_ok \in BOOLEAN :
          LET out == is_model_available_call(df_available, cache_handle, init_ok,
                                             init_total + 1)
          IN /\ cache_handle' = out.cache
             /\ cache_last' = Some(CacheCall("is_model_available", cache_handle, out))
             /\ init_total' = IF out.inited THEN init_total + 1 ELSE init_total
             /\ init_since_unload' =
                   IF out.inited THEN init_since_unload + 1 ELSE init_since_unload
             /\ cache_event' = IF out.inited THEN "init" ELSE cache_event
    /\ cache_ops' = cache_ops + 1
    /\ UNCHANGED <<pvars, preset_store, svars, xvars, cvars, avars, df_available, threads,
                   handles_returned>>

UnloadCall ==
    /\ cache_ops < MaxCacheOps
    /\ cache_handle' = unload_models(cache_handle)
    /\ cache_last' = Some(CacheCall("unload", cache_handle,
                            [raised |-> None, ret |-> None, inited |-> FALSE]))
    /\ init_since_unload' = 0
    /\ cache_event' = "unload"
    /\ cache_ops' = cache_ops + 1
    /\ UNCHANGED <<pvars, preset_store, svars, xvars, cvars, avars, df_available, init_total, threads,
                   handles_returned>>

CacheNext == LoadCall \/ IsAvailableCall \/ UnloadCall

SpecCache == CacheInit /\ [][CacheNext]_vars

\* Two threads in the same process. load_deepfilternet holds no lock, so a
\* thread can be preempted between the membership test on _model_cache, the
\* call of init_df and the store into _model_cache.

MaxThreadCalls == 2

SetThread(t, pc_, op, local) ==
    [threads EXCEPT ![t] = [pc |-> pc_, op |-> op, local |-> local, calls |-> @.calls]]

\* A thread enters load_deepfilternet, directly or through is_model_available.
ThreadCall(t) ==
    /\ threads[t].pc = "idle"
    /\ threads[t].calls < MaxThreadCalls
    /\ \E op \in {"load", "is_model_available"} :
          threads' = [threads EXCEPT ![t] =
                         [pc |-> "check", op |-> op, local |-> None,
                          calls |-> @.calls + 1]]
    /\ cache_ops' = cache_ops + 1
    /\ UNCHANGED <<pvars, preset_store, svars, xvars, cvars, avars, df_available, cache_handle,
                   init_total, init_since_unload, cache_event, cache_last,
                   handles_returned>>

\* if not DEEPFILTERNET_AVAILABLE: raise; if "deepfilternet" in _model_cache:
\* return _model_cache["deepfilternet"].
ThreadCheck(t) ==
    /\ threads[t].pc = "check"
    /\ IF ~df_available
       THEN /\ threads' = SetThread(t, "idle", threads[t].op, None)
            /\ UNCHANGED handles_returned
       ELSE IF cache_handle # None
       THEN /\ threads' = SetThread(t, "idle", threads[t].op, cache_handle)
            /\ handles_returned' = handles_returned \cup {cache_handle[1]}
       ELSE /\ threads' = SetThread(t, "init", threads[t].op, None)
            /\ UNCHANGED handles_returned
    /\ UNCHANGED <<pvars, preset_store, svars, xvars, cvars, avars, df_available, cache_handle,
                   init_total, init_since_unload, cache_event, cache_ops, cache_last>>

\* model, df_state, sr = init_df(): returns a new handle or raises.
ThreadInit(t) ==
    /\ threads[t].pc = "init"
    /\ \/ /\ threads' = SetThread(t, "store", threads[t].op, Some(init_total + 1))
          /\ init_total' = init_total + 1
          /\ init_since_unload' = init_since_unload + 1
       \/ /\ threads' = SetThread(t, "idle", threads[t].op, None)
          /\ UNCHANGED <<init_total, init_since_unload>>
    /\ UNCHANGED <<pvars, preset_store, svars, xvars, cvars, avars, df_available, cache_handle,
                   cache_event, cache_ops, cache_last, handles_returned>>

\* _model_cache["deepfilternet"] = (model, df_state, sr); return model, df_state, sr.
ThreadStore(t) ==
    /\ threads[t].pc = "store"
    /\ cache_handle' = threads[t].local
    /\ cache_event' = "init"
    /\ handles_returned' = handles_returned \cup {threads[t].local[1]}
    /\ threads' = SetThread(t, "idle", threads[t].op, threads[t].local)
    /\ UNCHANGED <<pvars, preset_store, svars, xvars, cvars, avars, df_available, init_total,
                   init_since_unload, cache_ops, cache_last>>

\* A thread calls unload_models.
ThreadUnload(t) ==
    /\ threads[t].pc = "idle"
    /\ threads[t].calls < MaxThreadCalls
    /\ cache_handle # None
    /\ cache_handle' = unload_models(cache_handle)
    /\ cache_event' = "unload"
    /\ init_since_unload' = 0
    /\ handles_returned' = {}
    /\ threads' = [threads EXCEPT ![t] =
                       [pc |-> "idle", op |-> "unload", local |-> None,
                        calls |-> @.calls + 1]]
    /\ cache_ops' = cache_ops + 1
    /\ UNCHANGED <<pvars, preset_store, svars, xvars, cvars, avars, df_available, init_total,
                   cache_last>>

ThreadsNext ==
    \E t \in Threads :
        \/ ThreadCall(t)
        \/ ThreadCheck(t)
        \/ ThreadInit(t)
        \/ ThreadStore(t)
        \/ ThreadUnload(t)

SpecCacheConcurrent == CacheInit /\ [][ThreadsNext]_vars

----------------------------------------------------------------------------
(* services/analyzer.py: _calculate_quality_score.

   Units: snr_db and dynamic_range_db in dB, spectral_flatness and
   silence_ratio in hundredths, clipping_ratio in ten-thousandths. A sub-score
   is in 600ths (600 for 1.0), a weight in hundredths, so the weighted sum and
   the returned score are in 60000ths (60000 for 1.0). *)

Min(a, b) == IF a <= b THEN a ELSE b

\* np.clip(x, lo, hi)
Clip(x, lo, hi) == Max(lo, Min(x, hi))

\* snr_score = np.clip(snr_db / 40, 0, 1)
snr_score(snr_db) == Clip(snr_db * 15, 0, 600)

\* flatness_score = 1 - np.clip(spectral_flatness / 0.5, 0, 1)
flatness_score(spectral_flatness) == 600 - Clip(spectral_flatness * 12, 0, 600)

\* The three branches on dynamic_range_db.
dr_score_unfloored(dynamic_range_db) ==
    IF dynamic_range_db < 6 THEN dynamic_range_db * 100
    ELSE IF dynamic_range_db <= 20 THEN 600
    ELSE 600 - (dynamic_range_db - 20) * 30

dr_score(dynamic_range_db) ==
    IF dynamic_range_db < 6 THEN dynamic_range_db * 100
    ELSE IF dynamic_range_db <= 20 THEN 600
    ELSE Max(0, 600 - (dynamic_range_db - 20) * 30)

\* clipping_score = 1 - np.clip(clipping_ratio * 100, 0, 1)
clipping_score(clipping_ratio) == 600 - Clip(clipping_ratio * 6, 0, 600)

\* silence_score = 1 if silence_ratio < 0.9 else 0.5
silence_score(silence_ratio) == IF silence_ratio < 90 THEN 600 ELSE 300

calculate_quality_score(snr_db, spectral_flatness, dynamic_range_db, clipping_ratio, silence_ratio) ==
    Clip(35 * snr_score(snr_db)
           + 20 * flatness_score(spectral_flatness)
           + 20 * dr_score(dynamic_range_db)
           + 20 * clipping_score(clipping_ratio)
           + 5 * silence_score(silence_ratio),
         0, 60000)

\* The argument values tried: the ends of each range and the corners of each
\* sub-score.
ScoreSnrs == {0, 20, 40, 60}
ScoreFlatnesses == {0, 25, 50, 100}
ScoreDynamicRanges == {0, 3, 6, 20, 30, 40, 45}
ScoreClippings == {0, 50, 100, 10000}
ScoreSilences == {0, 89, 90, 100}

ScoreInit ==
    /\ PipelineIdle
    /\ SelectorIdle
    /\ ConstructIdle
    /\ CacheIdle
    /\ DspIdle
    /\ \E sn \in ScoreSnrs, fl \in ScoreFlatnesses, dr \in ScoreDynamicRanges,
          cl \in ScoreClippings, si \in ScoreSilences :
          score_in = Some([snr_db |-> sn, spectral_flatness |-> fl,
                           dynamic_range_db |-> dr, clipping_ratio |-> cl,
                           silence_ratio |-> si])
    /\ score_out = None
    /\ an_in = None
    /\ an_out = None
    /\ snr_out = None

ScoreCall ==
    /\ score_out = None
    /\ score_out' = Some(calculate_quality_score(score_in[1].snr_db,
                             score_in[1].spectral_flatness,
                             score_in[1].dynamic_range_db,
                             score_in[1].clipping_ratio,
                             score_in[1].silence_ratio))
    /\ UNCHANGED <<pvars, preset_store, svars, xvars, cvars, mvars, score_in, an_in, an_out,
                   snr_out>>

ScoreNext == ScoreCall

SpecScore == ScoreInit /\ [][ScoreNext]_vars

----------------------------------------------------------------------------
(* services/analyzer.py: analyze_quality and the metrics it computes.

   Units: a sample is its absolute value in ten-thousandths of full scale
   (10000 for 1.0), so a power (a square, or a sum of squares) is in units of
   1e-8; a level difference in dB is rounded down to a multiple of 10 dB. A
   sample frame is the tuple of its channels' samples. *)

MaxSamples == 12

\* The sample values tried: silence, the 1e-3 threshold itself, just above
\* it, a quiet and a clipped sample.
Amplitudes == {0, 10, 11, 100, 12000}

\* The sample rates tried: 50 ms is 2 samples at 48 Hz and 5 at 100 Hz.
AnalyzerRates == {48, 100}

\* The buffers tried: k samples of one value followed by n - k of another,
\* mono or with both channels equal.
AnalyzerInputs ==
    {[samples |-> [i \in 1 .. n |->
                      IF ch = 1 THEN (IF i <= k THEN <<a>> ELSE <<b>>)
                      ELSE (IF i <= k THEN <<a, a>> ELSE <<b, b>>)],
      channels |-> ch,
      sample_rate |-> sr] :
        n \in 1 .. MaxSamples, k \in 0 .. MaxSamples, a \in Amplitudes,
        b \in Amplitudes, ch \in {1, 2}, sr \in AnalyzerRates}

\* np.mean(samples, axis=1) for a stereo buffer, the buffer itself for mono.
samples_mono(audio) ==
    IF audio.channels > 1
    THEN [i \in DOMAIN audio.samples |->
             (audio.samples[i][1] + audio.samples[i][2]) \div 2]
    ELSE [i \in DOMAIN audio.samples |-> audio.samples[i][1]]

RECURSIVE SumSquares(_)
SumSquares(x) == IF x = <<>> THEN 0 ELSE Head(x) * Head(x) + SumSquares(Tail(x))

RECURSIVE Pow10(_)
Pow10(j) == IF j = 0 THEN 1 ELSE 10 * Pow10(j - 1)

\* 10 * log10(num / den) for num >= den > 0, rounded down to a multiple of 10.
Decibels(num, den) == 10 * Cardinality({j \in 1 .. 9 : num \div den >= Pow10(j)})

SeqMax(x) == CHOOSE v \in {x[i] : i \in DOMAIN x} : \A i \in DOMAIN x : x[i] <= v

frame_length(sr) == (sr * 5) \div 100

hop_length(sr) == frame_length(sr) \div 2

\* librosa.util.frame: the frames of x, or the ParameterError it raises for
\* an input shorter than one frame or a hop below 1.
frame(x, frame_length_, hop_length_) ==
    IF Len(x) < frame_length_
    THEN [raised |-> Some(Exc("ParameterError", "Input is too short")), frames |-> <<>>]
    ELSE IF hop_length_ < 1
    THEN [raised |-> Some(Exc("ParameterError", "Invalid hop_length")), frames |-> <<>>]
    ELSE [raised |-> None,
          frames |-> [f \in 1 .. 1 + (Len(x) - frame_length_) \div hop_length_ |->
                        SubSeq(x, (f - 1) * hop_length_ + 1,
                               (f - 1) * hop_length_ + frame_length_)]]

\* The powers (frame_length times the squared RMS) of the frames whose RMS is
\* above 1e-3.
NonSilentPowers(frames, frame_length_) ==
    {SumSquares(frames[f]) : f \in {g \in DOMAIN frames :
                                      SumSquares(frames[g]) > 100 * frame_length_}}

\* The number of frames whose RMS is above 1e-3: np.sum(non_silent_mask).
NonSilentCount(frames, frame_length_) ==
    Cardinality({g \in DOMAIN frames : SumSquares(frames[g]) > 100 * frame_length_})

\* estimate_snr: the exception raised (<<>> if none) and the value returned.
\* With fewer than 20 non-silent frames (MaxSamples keeps it so) the top and
\* the bottom tenth are one frame each: the loudest and the quietest.
estimate_snr(x, sr) ==
    LET framed == frame(x, frame_length(sr), hop_length(sr))
        powers == NonSilentPowers(framed.frames, frame_length(sr))
        signal == CHOOSE p \in powers : \A q \in powers : q <= p
        noise == CHOOSE p \in powers : \A q \in powers : p <= q
    IN IF framed.raised # None THEN [raised |-> framed.raised, ret |-> None]
       ELSE IF NonSilentCount(framed.frames, frame_length(sr)) < 10
       THEN [raised |-> None, ret |-> Some(0)]
       ELSE IF noise = 0 THEN [raised |-> None, ret |-> Some(60)]
       ELSE [raised |-> None, ret |-> Some(Clip(Decibels(signal, noise), 0, 60))]

\* calculate_dynamic_range: np.max raises ValueError on an empty array.
calculate_dynamic_range(x) ==
    IF Len(x) = 0
    THEN [raised |-> Some(Exc("ValueError", "zero-size array to reduction operation")),
          ret |-> None]
    ELSE IF SeqMax(x) = 0 THEN [raised |-> None, ret |-> Some(0)]
    ELSE [raised |-> None,
          ret |-> Some(Decibels(SeqMax(x) * SeqMax(x),
                                Max(1, SumSquares(x) \div Len(x))))]

\* calculate_clipping_ratio, in ten-thousandths.
calculate_clipping_ratio(x) ==
    IF Len(x) = 0 THEN 0
    ELSE (Cardinality({i \in DOMAIN x : x[i] >= 9900}) * 10000) \div Len(x)

\* calculate_silence_ratio, in hundredths: the threshold 10 ** (-60 / 20) is 1e-3.
calculate_silence_ratio(x) ==
    IF Len(x) = 0 THEN 100
    ELSE (Cardinality({i \in DOMAIN x : x[i] < 10}) * 100) \div Len(x)

\* analyze_quality: the exception raised (<<>> if none) and the QualityMetrics
\* returned. spectral_flatness is what librosa.feature.spectral_flatness
\* returned for the buffer.
analyze_quality(audio, spectral_flatness) ==
    LET x == samples_mono(audio)
        snr == estimate_snr(x, audio.sample_rate)
        dr == calculate_dynamic_range(x)
    IN IF snr.raised # None THEN [raised |-> snr.raised, metrics |-> None]
       ELSE IF dr.raised # None THEN [raised |-> dr.raised, metrics |-> None]
       ELSE [raised |-> None,
             metrics |-> Some(
                [snr_db |-> snr.ret[1],
                 spectral_flatness |-> spectral_flatness,
                 dynamic_range_db |-> dr.ret[1],
                 clipping_ratio |-> calculate_clipping_ratio(x),
                 silence_ratio |-> calculate_silence_ratio(x),
                 quality_score |->
                    calculate_quality_score(snr.ret[1], spectral_flatness, dr.ret[1],
                                            calculate_clipping_ratio(x),
                                            calculate_silence_ratio(x))])]

\* The flatness values librosa can return, in hundredths.
Flatnesses == {0, 30, 100}

AnalyzerInit ==
    /\ PipelineIdle
    /\ SelectorIdle
    /\ ConstructIdle
    /\ CacheIdle
    /\ DspIdle
    /\ score_in = None
    /\ score_out = None
    /\ \E a \in AnalyzerInputs : an_in = Some(a)
    /\ an_out = None
    /\ snr_out = None

AnalyzeCall ==
    /\ an_out = None
    /\ \E fl \in Flatnesses : an_out' = Some(analyze_quality(an_in[1], fl))
    /\ UNCHANGED <<pvars, preset_store, svars, xvars, cvars, mvars, score_in, score_out, an_in,
                   snr_out>>

EstimateSnrCall ==
    /\ snr_out = None
    /\ snr_out' = Some(estimate_snr(samples_mono(an_in[1]), an_in[1].sample_rate))
    /\ UNCHANGED <<pvars, preset_store, svars, xvars, cvars, mvars, score_in, score_out, an_in,
                   an_out>>

AnalyzerNext == AnalyzeCall \/ EstimateSnrCall

SpecAnalyzer == AnalyzerInit /\ [][AnalyzerNext]_vars

----------------------------------------------------------------------------
(* services/dynamics.py: normalize_loudness and _estimate_loudness_lufs.

   A buffer is an array (id) whose non-zero samples all have one magnitude:
   signs holds, per frame, the tuple of its channels' signs (-1, 0 or 1) and
   level the magnitude in tenths of a dB relative to 1.0 (0 for 1.0, -2000 for
   1e-10). Loudness and gain are in tenths of a dB, rounded to the nearest
   tenth. *)

MaxNormalizeCalls == 3

LoudnessBuffer(id, signs, level) == [id |-> id, signs |-> signs, level |-> level]

\* The sign patterns tried: one or two frames, mono or stereo.
SignPatterns ==
    UNION {[1 .. n -> [1 .. ch -> {-1, 0, 1}]] : n \in {1, 2}, ch \in {1, 2}}

\* The magnitudes tried: below 1e-10, just below it, 1e-10 itself, 1e-5, the
\* magnitude whose loudness is -14.0, 0.5, 1.0 and 2.0.
LoudnessLevels == {-2200, -2001, -2000, -1000, -133, -60, 0, 60}

\* The target loudnesses tried, in tenths of a LUFS.
LoudnessTargets == {-700, -600, DefaultLoudness, 0}

\* 10 * log10(k) in tenths of a dB, for the integers met.
TenLog10 == <<0, 30, 48, 60, 70, 78, 85, 90>>

\* np.mean(samples, axis=1) (the buffer itself when mono): twice the mean of
\* the frame's signs, so that it is an integer.
MonoTwice(frame_) ==
    IF Len(frame_) > 1 THEN frame_[1] + frame_[2] ELSE 2 * frame_[1]

\* The sum over the frames of the squared doubled mono sign: np.mean(mono**2)
\* is 10^(level/100) * MonoSquares / (4 * frames).
RECURSIVE MonoSquares(_)
MonoSquares(signs) ==
    IF signs = <<>> THEN 0
    ELSE MonoTwice(Head(signs)) * MonoTwice(Head(signs)) + MonoSquares(Tail(signs))

\* 20 * log10(rms) of a buffer whose mono signal is not all zero.
RmsLevel(buf) ==
    buf.level + TenLog10[MonoSquares(buf.signs)] - TenLog10[4 * Len(buf.signs)]

\* _estimate_loudness_lufs: <<>> (None) when rms < 1e-10, else
\* 20 * log10(rms) - 0.691.
estimate_loudness_lufs_unguarded(buf) ==
    IF MonoSquares(buf.signs) = 0 THEN Some(-4000) ELSE Some(RmsLevel(buf) - 7)

estimate_loudness_lufs(buf) ==
    IF MonoSquares(buf.signs) = 0 THEN None
    ELSE IF RmsLevel(buf) < -2000 THEN None
    ELSE Some(RmsLevel(buf) - 7)

\* _soft_clip(threshold=0.95) on a sample of magnitude `level`: unchanged up to
\* 0.95, else threshold + (1 - threshold) * tanh((|x| - threshold) / (1 - threshold)).
soft_clip(level) ==
    IF level <= -2 THEN level
    ELSE IF level = -1 THEN -2
    ELSE IF level <= 1 THEN -1
    ELSE 0

\* normalize_loudness(samples, target_lufs): the loudness estimated, the gain
\* applied in dB and the array returned: the argument itself for a silent
\* buffer, else a new array (fresh) holding the scaled and soft-clipped samples.
normalize_loudness_call(buf, target_lufs, fresh) ==
    LET current_lufs == estimate_loudness_lufs(buf)
        gain_db == Clip(target_lufs - current_lufs[1], -200, 200)
    IN IF current_lufs = None
       THEN [current_lufs |-> None, gain_db |-> None, ret |-> buf]
       ELSE [current_lufs |-> current_lufs,
             gain_db |-> Some(gain_db),
             ret |-> LoudnessBuffer(fresh, buf.signs, soft_clip(buf.level + gain_db))]

LoudnessInit ==
    /\ PipelineIdle
    /\ SelectorIdle
    /\ ConstructIdle
    /\ CacheIdle
    /\ AnalyzerIdle
    /\ \E signs \in SignPatterns, level \in LoudnessLevels :
          /\ nl_first = Some(LoudnessBuffer(1, signs, level))
          /\ nl_buf = Some(LoudnessBuffer(1, signs, level))
    /\ nl_calls = 0
    /\ nl_last = None
    /\ gr_in = None
    /\ gr_out = None
    /\ eq_in = None
    /\ eq_out = None
    /\ DepthIdle

\* normalize_loudness is applied to the buffer the previous call returned.
NormalizeCall ==
    /\ nl_calls < MaxNormalizeCalls
    /\ \E target_lufs \in LoudnessTargets :
          LET out == normalize_loudness_call(nl_buf[1], target_lufs, nl_calls + 2)
          IN /\ nl_last' = Some([samples |-> nl_buf[1], target_lufs |-> target_lufs,
                                 current_lufs |-> out.current_lufs,
                                 gain_db |-> out.gain_db, ret |-> out.ret])
             /\ nl_buf' = Some(out.ret)
    /\ nl_calls' = nl_calls + 1
    /\ UNCHANGED <<pvars, preset_store, svars, cvars, mvars, avars, nl_first, gvars, evars, dvars>>

LoudnessNext == NormalizeCall

SpecLoudness == LoudnessInit /\ [][LoudnessNext]_vars

----------------------------------------------------------------------------
(* services/dynamics.py: _calculate_gain_reduction.

   Units: a level, the threshold and the knee width are in half dB (-36 for
   -18 dB, 12 for 6 dB); a gain reduction in dB is in 576ths of a half dB
   (1152 for -1 dB), which keeps every value of both compressor settings an
   integer. The linear gain 10 ** (gain_reduction_db / 20) is at most 1 exactly
   when the gain reduction in dB is at most 0. *)

\* gain_reduction_db = output_db - level_db for one envelope sample, by the
\* three branches on level_db.
gain_reduction_db(level_db, threshold_db, ratio, knee_db) ==
    IF 2 * level_db <= 2 * threshold_db - knee_db
    THEN 0
    ELSE IF 2 * level_db >= 2 * threshold_db + knee_db
    THEN ((level_db - threshold_db) * (1 - ratio) * 576) \div ratio
    ELSE LET x == level_db - threshold_db + knee_db \div 2
         \* knee_factor = x / knee_db
         \* compression_amount = knee_factor * knee_factor * (1 / ratio - 1) / 2
         \* output_db = level_db + compression_amount * x
         IN (x * x * x * (1 - ratio) * 576) \div (2 * ratio * knee_db * knee_db)

\* _calculate_gain_reduction: the gain reduction of every envelope sample.
calculate_gain_reduction(envelope_db, threshold_db, ratio, knee_db) ==
    [i \in DOMAIN envelope_db |->
        gain_reduction_db(envelope_db[i], threshold_db, ratio, knee_db)]

\* The envelopes tried: four equally spaced levels (half a dB or one dB apart)
\* starting between -60 dB and +6 dB, or at the floor of -200 dB that
\* np.maximum(envelope, 1e-10) sets.
GainEnvelopes ==
    {<<l, l + d, l + 2 * d, l + 3 * d>> : l \in (-120 .. 12) \cup {-400}, d \in {1, 2}}

GainInit ==
    /\ PipelineIdle
    /\ SelectorIdle
    /\ ConstructIdle
    /\ CacheIdle
    /\ AnalyzerIdle
    /\ LoudnessIdle
    /\ \E preserve \in BOOLEAN, env \in GainEnvelopes :
          gr_in = Some([settings |->
                            CompressorSettings([preserve_dynamics |-> preserve]),
                        envelope_db |-> env])
    /\ gr_out = None
    /\ eq_in = None
    /\ eq_out = None
    /\ DepthIdle

GainCall ==
    /\ gr_out = None
    /\ gr_out' = Some(calculate_gain_reduction(gr_in[1].envelope_db,
                          2 * gr_in[1].settings.threshold_db,
                          gr_in[1].settings.ratio,
                          2 * gr_in[1].settings.knee_db))
    /\ UNCHANGED <<pvars, preset_store, svars, cvars, mvars, avars, lvars, gr_in, evars,
                   dvars>>

GainNext == GainCall

SpecGain == GainInit /\ [][GainNext]_vars

----------------------------------------------------------------------------
(* services/spectral.py: apply_eq on a buffer with a shape.

   A buffer has a frame count and one record per channel: the input channel
   its samples come from (src) and the filters applied to them (ops). *)

EqBuffer(frames, channels) ==
    [frames |-> frames,
     channels |-> [c \in 1 .. channels |-> [src |-> c, ops |-> <<>>]]]

\* scipy.signal.filtfilt(b, a, x) with three coefficients each: the default
\* padlen is 3 * max(len(a), len(b)) = 9 and an input of at most padlen
\* samples raises ValueError.
filtfilt(channel, name, frames) ==
    IF frames <= 9
    THEN [raised |-> Some(Exc("ValueError",
                              "The length of the input vector x must be greater than padlen")),
          ret |-> channel]
    ELSE [raised |-> None, ret |-> [channel EXCEPT !.ops = Append(@, name)]]

\* _apply_filter: filtfilt on the buffer when mono, else on every column of a
\* new array of the input's shape.
apply_filter(buf, name) ==
    IF \E c \in DOMAIN buf.channels : filtfilt(buf.channels[c], name, buf.frames).raised # None
    THEN [raised |-> filtfilt(buf.channels[1], name, buf.frames).raised, ret |-> buf]
    ELSE [raised |-> None,
          ret |-> [buf EXCEPT !.channels =
                      [c \in DOMAIN buf.channels |->
                          filtfilt(buf.channels[c], name, buf.frames).ret]]]

\* The four filters applied in turn, each returning its argument when its
\* frequency is at or above sr / 2; an exception ends the call.
RECURSIVE apply_bands(_, _, _)
apply_bands(buf, sr, bands) ==
    IF bands = <<>> THEN [raised |-> None, ret |-> buf]
    ELSE IF 2 * Head(bands).cutoff >= sr THEN apply_bands(buf, sr, Tail(bands))
    ELSE IF apply_filter(buf, Head(bands).name).raised # None
    THEN apply_filter(buf, Head(bands).name)
    ELSE apply_bands(apply_filter(buf, Head(bands).name).ret, sr, Tail(bands))

\* apply_eq(samples, sr, config): the exception raised (<<>> if none) and the
\* buffer returned.
apply_eq_call(buf, sr, config_) ==
    IF ~config_.eq_enabled THEN [raised |-> None, ret |-> buf]
    ELSE apply_bands(buf, sr, EqBands)

\* The frame counts tried, around filtfilt's padlen, and the sample rates,
\* around twice each filter's frequency.
EqFrames == {1, 9, 10, 64}
EqRates == {48, 60, 61, 200, 201, 6000, 6001, 16000, 24000, 24001, 44100}

EqInit ==
    /\ PipelineIdle
    /\ SelectorIdle
    /\ ConstructIdle
    /\ CacheIdle
    /\ AnalyzerIdle
    /\ LoudnessIdle
    /\ gr_in = None
    /\ gr_out = None
    /\ \E frames \in EqFrames, channels \in {1, 2}, sr \in EqRates, eq \in BOOLEAN :
          eq_in = Some([samples |-> EqBuffer(frames, channels), sr |-> sr,
                        config |-> [DefaultConfig EXCEPT !.eq_enabled = eq]])
    /\ eq_out = None
    /\ DepthIdle

EqCall ==
    /\ eq_out = None
    /\ eq_out' = Some(apply_eq_call(eq_in[1].samples, eq_in[1].sr, eq_in[1].config))
    /\ UNCHANGED <<pvars, preset_store, svars, cvars, mvars, avars, lvars, gvars, eq_in, dvars>>

EqNext == EqCall

SpecEq == EqInit /\ [][EqNext]_vars

----------------------------------------------------------------------------
(* services/loader.py, services/enhancer.py, services/exporter.py: the bit
   depth of a WAV file from load_audio to the subtype save_audio writes. *)

\* _get_bit_depth: the bits per sample load_audio records for a subtype.
get_bit_depth(subtype) ==
    CASE subtype = "PCM_S8" -> 8
      [] subtype = "PCM_U8" -> 8
      [] subtype = "PCM_16" -> 16
      [] subtype = "PCM_24" -> 24
      [] subtype = "PCM_32" -> 32
      [] subtype = "FLOAT" -> 32
      [] subtype = "DOUBLE" -> 64
      [] OTHER -> 16

\* _get_subtype: the subtype save_audio writes for a bit depth.
get_subtype(bit_depth) ==
    CASE bit_depth = 8 -> "PCM_U8"
      [] bit_depth = 16 -> "PCM_16"
      [] bit_depth = 24 -> "PCM_24"
      [] bit_depth = 32 -> "FLOAT"
      [] OTHER -> "PCM_24"

\* The bits per sample of the four subtypes save_audio can write.
SubtypeBits(subtype) ==
    CASE subtype = "PCM_U8" -> 8
      [] subtype = "PCM_16" -> 16
      [] subtype = "PCM_24" -> 24
      [] subtype = "FLOAT" -> 32

\* The subtypes of WAV files tried: the seven _get_bit_depth names and three
\* it does not name.
WavSubtypes ==
    {"PCM_S8", "PCM_U8", "PCM_16", "PCM_24", "PCM_32", "FLOAT", "DOUBLE",
     "ULAW", "ALAW", "MS_ADPCM"}

WavRates == {8000, 16000, 44100, 48000}

DepthInit ==
    /\ PipelineIdle
    /\ SelectorIdle
    /\ ConstructIdle
    /\ CacheIdle
    /\ AnalyzerIdle
    /\ LoudnessIdle
    /\ gr_in = None
    /\ gr_out = None
    /\ eq_in = None
    /\ eq_out = None
    /\ \E subtype \in WavSubtypes, channels \in {1, 2}, sample_rate \in WavRates :
          bd_in = Some([subtype |-> subtype, channels |-> channels,
                        sample_rate |-> sample_rate])
    /\ bd_loaded = None
    /\ bd_output = None
    /\ bd_written = None

\* load_audio: the AudioFile with the bit depth of the file's subtype.
DepthLoad ==
    /\ bd_loaded = None
    /\ bd_loaded' = Some(AudioFile(get_bit_depth(bd_in[1].subtype), bd_in[1].channels,
                                   bd_in[1].sample_rate))
    /\ UNCHANGED <<pvars, preset_store, svars, cvars, mvars, avars, lvars, gvars, evars, bd_in,
                   bd_output, bd_written>>

\* enhance_audio: the output AudioFile built from the input one.
DepthEnhance ==
    /\ bd_loaded # None
    /\ bd_output = None
    /\ bd_output' = Some(OutputAudio(bd_loaded[1], 1))
    /\ UNCHANGED <<pvars, preset_store, svars, cvars, mvars, avars, lvars, gvars, evars, bd_in,
                   bd_loaded, bd_written>>

\* save_audio(output_audio, output_path): bit_depth is None, so the subtype is
\* that of max(audio_file.bit_depth, 24).
DepthSave ==
    /\ bd_output # None
    /\ bd_written = None
    /\ bd_written' = Some(get_subtype(Max(bd_output[1].bit_depth, 24)))
    /\ UNCHANGED <<pvars, preset_store, svars, cvars, mvars, avars, lvars, gvars, evars, bd_in,
                   bd_loaded, bd_output>>

DepthNext ==
    \/ DepthLoad
    \/ DepthEnhance
    \/ DepthSave

SpecDepth == DepthInit /\ [][DepthNext]_vars

----------------------------------------------------------------------------
(* Properties *)

StageNames(st) == [i \in DOMAIN st |-> st[i].name]

\* The phases in the order enhance_audio runs them.
PhaseOrder ==
    <<"analysis", "noise_reduction", "spectral", "dynamics", "validation", "export">>

\* The positions at which an exception can leave the try block, and the number
\* of phases completed before each (config selection and the sample copy come
\* after the analysis and have no record of their own).
FaultPositions ==
    {"analysis", "select", "noise_reduction", "spectral", "dynamics", "validation",
     "export"}

CompletedBefore(position) ==
    CASE position = "analysis" -> 0
      [] position \in {"select", "noise_reduction"} -> 1
      [] position = "spectral" -> 2
      [] position = "dynamics" -> 3
      [] position = "validation" -> 4
      [] position = "export" -> 5

\* The noise_reduction stage ran through the neural path.
NeuralMethodRecorded ==
    \E i \in DOMAIN stages : stages[i].method = "deepfilternet"

\* C1: a successful run's stage list holds exactly one record per phase, in the
\* order analysis, select (exactly when the requested level is auto),
\* noise_reduction, spectral, dynamics, validation, export.
C1_StageListPerPhase ==
    (result # None /\ result[1].success) =>
        StageNames(result[1].processing_stages) =
            IF user_config[1].quality_level = "auto"
            THEN <<"analysis", "select", "noise_reduction", "spectral", "dynamics",
                   "validation", "export">>
            ELSE <<"analysis", "noise_reduction", "spectral", "dynamics",
                   "validation", "export">>

\* C2: an exception in any stage halts the run: no later stage runs, no export
\* is attempted after it, the call returns a failure result whose stage list is
\* the records of the stages completed before the fault (a proper prefix of the
\* success sequence) and whose input_metrics is present exactly when the input
\* analysis had completed.
C2_FaultHaltsWithPrefix ==
    (raised # None /\ fault_at \in FaultPositions) =>
        /\ pc \in {"returned", "exited"}
        /\ result # None
        /\ ~result[1].success
        /\ StageNames(result[1].processing_stages) =
              SubSeq(PhaseOrder, 1, CompletedBefore(fault_at))
        /\ stages = result[1].processing_stages
        /\ (result[1].input_metrics # None) <=> (fault_at # "analysis")
        /\ result[1].input_metrics = input_metrics
        /\ export_attempted => fault_at = "export"
        /\ output_metrics # None => fault_at = "export"

C2_Witness ==
    /\ raised # None
    /\ fault_at = "dynamics"
    /\ result # None
    /\ Len(result[1].processing_stages) = 3
    /\ result[1].input_metrics # None

\* C3: a result with success = true has output_file and output_metrics and no
\* error_message; a result with success = false has neither output_file nor
\* output_metrics and has a non-empty error_message (with input_metrics still
\* present when the exporter reports insufficient space).
C3_ResultShape ==
    result # None =>
        IF result[1].success
        THEN /\ result[1].output_file # None
             /\ result[1].output_metrics # None
             /\ result[1].error_message = None
        ELSE /\ result[1].output_file = None
             /\ result[1].output_metrics = None
             /\ result[1].error_message # None
             /\ result[1].error_message[1] # ""
             /\ raised[1].cls = "InsufficientSpaceError" =>
                    result[1].input_metrics # None

\* C4: every error outcome leaves the program with the exit code of its class:
\* not-found 2; invalid format, corrupted, unsupported channels 3; processing
\* fault 4; insufficient space or write failure 5.
C4_ExitCodePerClass ==
    (exit_code # None /\ raised # None) =>
        exit_code[1] =
            CASE raised[1].cls = "AudioFileNotFoundError" -> 2
              [] raised[1].cls \in {"InvalidFormatError", "FileCorruptedError",
                                    "UnsupportedChannelsError"} -> 3
              [] raised[1].cls \in {"InsufficientSpaceError", "OutputWriteError"} -> 5
              [] OTHER -> 4

\* The neural path of a reduce_noise_with_fallback call does not deliver: the
\* library is absent, the model is not available, or the path raises.
NeuralPathFails(call) ==
    \/ ~call.env.lib
    \/ ~(call.cache \/ call.env.init_ok)
    \/ ~call.env.enhance_ok

\* C5: when reduce_noise_with_fallback is called with use_ai = true and the
\* neural path is unavailable or fails, the call returns the spectral-gating
\* result with method "spectral_gating" and the noise_reduction stage is
\* recorded as completed; a run never fails because of the neural path (the
\* only exception leaving the call is one raised by spectral gating itself).
C5_NeuralFailureFallsBack ==
    (nr_call # None /\ nr_call[1].use_ai /\ NeuralPathFails(nr_call[1])) =>
        /\ nr_call[1].spectral = None =>
              /\ fault_at # "noise_reduction"
              /\ Len(stages) >= 2
              /\ stages[2] = [name |-> "noise_reduction", enabled |-> TRUE,
                              method |-> "spectral_gating", ai_used |-> FALSE]
        /\ fault_at = "noise_reduction" => raised = nr_call[1].spectral

C5_Witness ==
    /\ nr_call # None
    /\ nr_call[1].use_ai
    /\ nr_call[1].env.lib
    /\ nr_call[1].env.init_ok
    /\ ~nr_call[1].env.enhance_ok
    /\ Len(stages) >= 2
    /\ stages[2].method = "spectral_gating"
    /\ result # None
    /\ result[1].success

\* C6: the neural path is attempted, and the noise_reduction method is
\* "deepfilternet", only if the effective config has ai_enhancement_enabled and
\* strength > 0 and the input metrics have quality_score < 0.5 or snr_db < 20;
\* the orchestrator's request (use_ai) is that one decision.
C6_NeuralOnlyWhenWarranted ==
    /\ (neural_attempted \/ NeuralMethodRecorded) =>
          /\ config[1].ai_enhancement_enabled
          /\ config[1].noise_reduction_strength > 0
          /\ input_metrics[1].quality_score < 50 \/ input_metrics[1].snr_db < 20
    /\ nr_call # None =>
          (nr_call[1].use_ai <=>
              /\ config[1].ai_enhancement_enabled
              /\ input_metrics[1].quality_score < 50 \/ input_metrics[1].snr_db < 20)

C6_Witness ==
    /\ neural_attempted
    /\ NeuralMethodRecorded
    /\ input_metrics[1].quality_score >= 50
    /\ input_metrics[1].snr_db < 20
    /\ user_config[1].quality_level = "auto"

\* C7: in a run with quality level "light" the noise_reduction stage method is
\* never "deepfilternet", whatever the metrics and the model availability; here
\* for the config _build_config builds for --quality light without --no-ai.
C7_LightNeverNeural ==
    (mode = "cli" /\ opts[1].quality = "light" /\ ~opts[1].no_ai) =>
        ~NeuralMethodRecorded

\* C8: select_config resolves score >= 0.8 to minimal; else score >= 0.7 to
\* light; else score < 0.5 or SNR < 20 to aggressive; else standard; the
\* resolved level is never auto.
C8_PresetPriority ==
    sel_last # None =>
        LET m == sel_last[1].metrics
            lvl == sel_last[1].resolved.quality_level
        IN /\ m.quality_score >= 80 => lvl = "minimal"
           /\ (m.quality_score >= 70 /\ m.quality_score < 80) => lvl = "light"
           /\ (m.quality_score < 70 /\ (m.quality_score < 50 \/ m.snr_db < 20)) =>
                 lvl = "aggressive"
           /\ (m.quality_score < 70 /\ m.quality_score >= 50 /\ m.snr_db >= 20) =>
                 lvl = "standard"
           /\ lvl \in {"minimal", "light", "standard", "aggressive"}

C8_Witness ==
    /\ sel_last # None
    /\ sel_last[1].metrics.quality_score >= 80
    /\ sel_last[1].metrics.snr_db < 20
    /\ sel_last[1].resolved.quality_level = "minimal"

\* C9: the resolved config is the preset with the user overrides on top: the
\* loudness is the user's when it differs from -14.0 (else the preset's),
\* ai_enhancement_enabled is preset AND user, preserve_dynamics is preset OR
\* user; the other fields are the preset's.
C9_OverridesOnPreset ==
    sel_last # None =>
        LET u == sel_last[1].user_config
            r == sel_last[1].resolved
            p == Presets[r.quality_level]
        IN /\ r.target_loudness_lufs =
                 IF u.target_loudness_lufs # -140
                 THEN u.target_loudness_lufs ELSE p.target_loudness_lufs
           /\ r.ai_enhancement_enabled =
                 (p.ai_enhancement_enabled /\ u.ai_enhancement_enabled)
           /\ r.preserve_dynamics = (p.preserve_dynamics \/ u.preserve_dynamics)
           /\ r.noise_reduction_strength = p.noise_reduction_strength
           /\ r.eq_enabled = p.eq_enabled
           /\ r.dynamics_enabled = p.dynamics_enabled

C9_Witness ==
    /\ sel_last # None
    /\ sel_last[1].resolved.quality_level = "aggressive"
    /\ sel_last[1].user_config.preserve_dynamics
    /\ sel_last[1].resolved.preserve_dynamics
    /\ ~sel_last[1].user_config.ai_enhancement_enabled
    /\ ~sel_last[1].resolved.ai_enhancement_enabled
    /\ sel_last[1].user_config.target_loudness_lufs = -230
    /\ sel_last[1].resolved.target_loudness_lufs = -230

\* C10: select_config is deterministic and pure: a call with the inputs of an
\* earlier call returns an equal config whatever calls came in between, the
\* named presets keep their values, and the user's config is left unchanged.
C10_SelectDeterministic ==
    /\ preset_store = Presets
    /\ sel_last # None =>
          /\ sel_last[1].user_after = sel_last[1].user_config
          /\ (/\ sel_ref[1].metrics = sel_last[1].metrics
              /\ sel_ref[1].user_config = sel_last[1].user_config) =>
                 sel_ref[1].resolved = sel_last[1].resolved

C10_Witness ==
    /\ sel_calls = MaxCalls
    /\ sel_ref[1].metrics = sel_last[1].metrics
    /\ sel_ref[1].user_config = sel_last[1].user_config
    /\ sel_last[1].resolved # Presets[sel_last[1].resolved.quality_level]
    /\ sel_ref[1].resolved = sel_last[1].resolved

\* The positions inside enhance_audio, from its first statement to its return.
PipelinePositions ==
    {"analysis", "select", "noise_reduction", "spectral", "dynamics", "validation",
     "export", "returned"}

\* C11: the config ranges hold in every reachable state: every config
\* enhance_audio processes with (built by the command line from its options or
\* resolved by select_config) has noise_reduction_strength in [0,1] and
\* target_loudness_lufs in [-60,0], and an out-of-range loudness option is
\* rejected before the pipeline runs.
C11_ConfigRangesAlways ==
    /\ (config # None /\ pc \in PipelinePositions) =>
          /\ 0 <= config[1].noise_reduction_strength
          /\ config[1].noise_reduction_strength <= 10
          /\ -600 <= config[1].target_loudness_lufs
          /\ config[1].target_loudness_lufs <= 0
    /\ (mode = "cli" /\ (opts[1].loudness < -600 \/ opts[1].loudness > 0)) =>
          pc \notin PipelinePositions

\* C12: constructing an EnhancementConfig raises exactly when
\* noise_reduction_strength is outside [0,1] or target_loudness_lufs is outside
\* [-60,0], both bounds inclusive; all four named presets construct.
C12_ConstructionFailsOutsideRanges ==
    ctor_last # None =>
        LET a == ctor_last[1].args
            outside ==
                \/ a.noise_reduction_strength < 0
                \/ a.noise_reduction_strength > 10
                \/ a.target_loudness_lufs < -600
                \/ a.target_loudness_lufs > 0
        IN /\ (ctor_last[1].raised # None) <=> outside
           /\ (ctor_last[1].object # None) <=> ~outside
           /\ ctor_last[1].object # None => ctor_last[1].object[1] = a
           /\ ctor_last[1].via # "init" =>
                 /\ ctor_last[1].raised = None
                 /\ ctor_last[1].object # None
                 /\ ctor_last[1].object[1].quality_level = ctor_last[1].via

\* A construction at the inclusive upper bounds succeeded.
C12_Witness ==
    /\ ctor_last # None
    /\ ctor_last[1].via = "init"
    /\ ctor_last[1].args.noise_reduction_strength = 10
    /\ ctor_last[1].args.target_loudness_lufs = 0
    /\ ctor_last[1].raised = None
    /\ ctor_last[1].object # None

\* C13: enhance_audio never modifies the caller's input buffer: on the success
\* path, on every failure path and for every combination of run and skipped
\* stages the input AudioFile's samples keep their value, and neither the
\* working buffer nor the output buffer is the input sample array itself.
C13_InputBufferUntouched ==
    /\ heap # <<>> => heap[1] = OriginalSamples
    /\ samples # None => samples[1] # 1
    /\ (result # None /\ result[1].success) =>
          /\ result[1].output_file[1].samples # 1
          /\ result[1].output_file[1].samples \in DOMAIN heap

\* A successful run in which every optional stage was skipped: the output
\* buffer holds the original samples in an array of its own.
C13_Witness ==
    /\ result # None
    /\ result[1].success
    /\ \A i \in DOMAIN stage_io : ~stage_io[i].executed
    /\ heap[result[1].output_file[1].samples] = heap[1]
    /\ result[1].output_file[1].samples = 2

\* C14: in every successful run the output descriptor has bit depth
\* max(input bit depth, 24), at least 24 and never below the input's, and the
\* input's channel count and sample rate.
C14_OutputDescriptor ==
    (result # None /\ result[1].success) =>
        LET out == result[1].output_file[1]
            in_ == audio_file[1]
        IN /\ out.bit_depth = (IF in_.bit_depth > 24 THEN in_.bit_depth ELSE 24)
           /\ out.bit_depth >= 24
           /\ out.bit_depth >= in_.bit_depth
           /\ out.channels = in_.channels
           /\ out.sample_rate = in_.sample_rate

C14_Witness ==
    /\ result # None
    /\ result[1].success
    /\ audio_file[1].bit_depth = 16
    /\ result[1].output_file[1].bit_depth = 24
    /\ result[1].output_file[1].channels = 1

\* The switch of an optional stage is off in the config c.
StageSwitchedOff(name, c) ==
    CASE name = "noise_reduction" -> c.noise_reduction_strength = 0
      [] name = "spectral" -> ~c.eq_enabled
      [] name = "dynamics" -> ~c.dynamics_enabled

\* C15: each optional stage (noise_reduction, spectral, dynamics) is recorded
\* as skipped (enabled = false, method "skipped") and leaves the working
\* buffer unchanged exactly when, in the effective config, strength is 0,
\* eq_enabled is false or dynamics_enabled is false respectively; otherwise it
\* is executed and recorded as completed (enabled = true).
C15_SkippedExactlyWhenDisabled ==
    /\ \A i \in DOMAIN stage_io :
          LET io == stage_io[i]
              rec == stages[i + 1]
              off == StageSwitchedOff(io.name, config[1])
          IN /\ io.name = <<"noise_reduction", "spectral", "dynamics">>[i]
             /\ rec.name = io.name
             /\ off <=> (~rec.enabled /\ rec.method = "skipped")
             /\ off => (~io.executed /\ io.after = io.before)
             /\ ~off => (io.executed /\ rec.enabled /\ rec.method # "skipped")
    /\ (result # None /\ result[1].success) => Len(stage_io) = 3

\* An auto-mode run resolved to the minimal preset: noise reduction ran, the
\* spectral and dynamics stages were skipped and left the buffer as it was.
C15_Witness ==
    /\ result # None
    /\ result[1].success
    /\ user_config[1].quality_level = "auto"
    /\ config[1].quality_level = "minimal"
    /\ stage_io[1].executed
    /\ ~stage_io[2].executed
    /\ ~stage_io[3].executed
    /\ stage_io[3].after = stage_io[1].after
    /\ stages[3].method = "skipped"
    /\ stages[4].method = "skipped"

\* C17: after any sequential series of load_deepfilternet, is_model_available
\* and unload_models calls the cache holds a handle exactly when the latest
\* cache-changing event was a successful initialization: a successful load
\* caches the handle and later loads return it without re-initializing; a
\* failed load raises and leaves the cache empty; unload_models empties the
\* cache so that the next load initializes again; is_model_available never
\* raises and returns true only with the model cached.
C17_CacheFollowsLatestEvent ==
    /\ (cache_handle # None) <=> (cache_event = "init")
    /\ cache_last # None =>
          LET c == cache_last[1]
          IN /\ (c.op = "load" /\ c.raised = None) =>
                   /\ cache_handle = c.ret
                   /\ c.ret # None
                   /\ c.before # None => (c.ret = c.before /\ ~c.inited)
                   /\ c.before = None => (c.inited /\ c.ret = Some(init_total))
             /\ (c.op = "load" /\ c.raised # None) =>
                   (c.ret = None /\ cache_handle = None)
             /\ c.op = "unload" => cache_handle = None
             /\ c.op = "is_model_available" =>
                   /\ c.raised = None
                   /\ c.ret = TRUE => cache_handle # None

\* A load, an unload and a second load: the second load initialized again and
\* the cache holds the second handle.
C17_Witness ==
    /\ cache_last # None
    /\ cache_last[1].op = "load"
    /\ cache_last[1].before = None
    /\ cache_last[1].inited
    /\ init_total = 2
    /\ init_since_unload = 1
    /\ cache_handle = Some(2)

\* C16: with two concurrent callers of load_deepfilternet / is_model_available
\* the model cache keeps initialized-once semantics: init_df is executed at
\* most once until unload_models is called, and every caller obtains the same
\* cached handle.
C16_InitializedOnce ==
    /\ init_since_unload <= 1
    /\ Cardinality(handles_returned) <= 1

\* C18: for every metrics value the level a dry run recommends in auto mode,
\* in the text and in the JSON form, is the quality level of the config
\* select_config resolves for the same metrics; for a clean input (score >=
\* 0.8, SNR >= 20) with AI not disabled it is "minimal" and AI is flagged "not
\* needed"; with a non-auto quality option it is the requested level.
C18_DryRunLevelIsSelectorLevel ==
    dry_run_out # None =>
        LET d == dry_run_out[1]
            o == opts[1]
            resolved == select_config(Presets, d.metrics,
                            build_config(o.quality, o.no_ai, o.preserve_dynamics,
                                         o.loudness))
            clean == d.metrics.quality_score >= 80 /\ d.metrics.snr_db >= 20
        IN /\ o.quality = "auto" => d.level = resolved.quality_level
           /\ o.quality # "auto" => d.level = o.quality
           /\ (clean /\ ~o.no_ai) =>
                 /\ o.quality = "auto" => d.level = "minimal"
                 /\ d.form = "text" => d.ai_str = Some("not needed")
                 /\ d.form = "json" => d.ai_flag = Some(FALSE)

\* A text dry run in auto mode on a clean input.
C18_Witness ==
    /\ dry_run_out # None
    /\ pc = "exited"
    /\ opts[1].quality = "auto"
    /\ ~opts[1].no_ai
    /\ dry_run_out[1].form = "text"
    /\ dry_run_out[1].metrics = QualityMetrics(80, 20)
    /\ dry_run_out[1].level = "minimal"
    /\ dry_run_out[1].ai_str = Some("not needed")

\* The dynamic range sub-score as the trapezoid through (0,0), (6,1), (20,1)
\* and (40,0), in 600ths.
Trapezoid(dr) == Max(0, Min(Min(dr * 100, 600), (40 - dr) * 30))

\* C19: for every SNR in [0,60], flatness in [0,1], dynamic range >= 0,
\* clipping ratio in [0,1] and silence ratio in [0,1] the score
\* _calculate_quality_score returns lies in [0,1] and is the weighted sum
\* (weights 0.35, 0.20, 0.20, 0.20, 0.05) of the clamped sub-scores, the
\* dynamic range scored as the 0-6-20-40 trapezoid, clamped to [0,1]; this
\* includes the metrics of the all-zero input.
C19_ScoreInUnitInterval ==
    score_out # None =>
        LET a == score_in[1]
            snr == Min(a.snr_db, 40) * 15
            flat == 600 - Min(a.spectral_flatness, 50) * 12
            clip == 600 - Min(a.clipping_ratio, 100) * 6
            sil == IF a.silence_ratio >= 90 THEN 300 ELSE 600
            sum == 35 * snr + 20 * flat + 20 * Trapezoid(a.dynamic_range_db)
                      + 20 * clip + 5 * sil
        IN /\ 0 <= score_out[1]
           /\ score_out[1] <= 60000
           /\ score_out[1] = Max(0, Min(sum, 60000))

\* The score of an input far beyond the trapezoid, and with it every
\* sub-score but the SNR's at its lowest.
C19_Witness ==
    /\ score_out # None
    /\ score_in[1].dynamic_range_db = 45
    /\ score_in[1].snr_db = 60
    /\ score_in[1].spectral_flatness = 100
    /\ score_in[1].clipping_ratio = 10000
    /\ score_in[1].silence_ratio = 100
    /\ score_out[1] = 35 * 600 + 5 * 300

\* Every sample of the buffer is zero.
AllZero(audio) ==
    \A i \in DOMAIN audio.samples :
        \A c \in DOMAIN audio.samples[i] : audio.samples[i][c] = 0

\* The number of 50 ms frames (hop 25 ms) of the buffer whose RMS is above 1e-3.
LoudFrameCount(audio) ==
    LET fl == frame_length(audio.sample_rate)
        x == samples_mono(audio)
        starts == {st \in 1 .. Len(x) :
                     /\ (st - 1) % hop_length(audio.sample_rate) = 0
                     /\ st + fl - 1 <= Len(x)}
    IN Cardinality({st \in starts : SumSquares(SubSeq(x, st, st + fl - 1)) > 100 * fl})

\* C20: for every all-zero input buffer (any frame count, mono or stereo)
\* analyze_quality returns without raising, with snr_db = 0 and silence_ratio
\* = 1.0; and estimate_snr returns 0 whenever fewer than 10 frames have an RMS
\* above 1e-3, otherwise a value in [0,60].
C20_SilentInputAnalyzes ==
    /\ (an_out # None /\ AllZero(an_in[1])) =>
          /\ an_out[1].raised = None
          /\ an_out[1].metrics # None
          /\ an_out[1].metrics[1].snr_db = 0
          /\ an_out[1].metrics[1].silence_ratio = 100
    /\ snr_out # None =>
          /\ snr_out[1].raised = None
          /\ snr_out[1].ret # None
          /\ LoudFrameCount(an_in[1]) < 10 => snr_out[1].ret[1] = 0
          /\ snr_out[1].ret[1] >= 0
          /\ snr_out[1].ret[1] <= 60

\* The RMS of the channel-averaged signal of the buffer is below 1e-10: the
\* mean of the squared channel averages is below 1e-20.
SilentBuffer(buf) ==
    \/ \A i \in DOMAIN buf.signs : MonoTwice(buf.signs[i]) = 0
    \/ buf.level + TenLog10[MonoSquares(buf.signs)] < -2000 + TenLog10[4 * Len(buf.signs)]

\* C21: normalize_loudness applied to a silent buffer (RMS of the
\* channel-averaged signal below 1e-10) returns the input array itself,
\* unchanged, for every target loudness, so any number of applications to a
\* silent buffer yields the buffer started from; for a non-silent buffer it
\* returns a new array and the gain applied in dB is target minus current
\* loudness clamped to [-20, +20].
C21_SilentBufferUnchanged ==
    /\ nl_last # None =>
          LET c == nl_last[1]
          IN /\ SilentBuffer(c.samples) =>
                   /\ c.ret = c.samples
                   /\ c.gain_db = None
             /\ ~SilentBuffer(c.samples) =>
                   /\ c.current_lufs # None
                   /\ c.ret.id # c.samples.id
                   /\ c.ret.signs = c.samples.signs
                   /\ c.gain_db # None
                   /\ c.gain_db[1] >= -200
                   /\ c.gain_db[1] <= 200
                   /\ (c.target_lufs - c.current_lufs[1] > 200) => c.gain_db[1] = 200
                   /\ (c.target_lufs - c.current_lufs[1] < -200) => c.gain_db[1] = -200
                   /\ (/\ c.target_lufs - c.current_lufs[1] <= 200
                       /\ c.target_lufs - c.current_lufs[1] >= -200) =>
                         c.gain_db[1] = c.target_lufs - c.current_lufs[1]
    /\ (nl_first # None /\ SilentBuffer(nl_first[1])) => nl_buf = nl_first

\* Three applications to a full-scale stereo buffer whose channels cancel (the
\* channel average is zero): the buffer started from is what the last returned.
C21_Witness ==
    /\ nl_calls = MaxNormalizeCalls
    /\ nl_first[1].level = 0
    /\ nl_first[1].signs = <<<<1, -1>>, <<-1, 1>>>>
    /\ nl_buf = nl_first
    /\ nl_last[1].ret.id = 1

\* The rank of a position in the order the program passes them.
PositionRank(position) ==
    CASE position = "cli_validate" -> 1
      [] position = "cli_load" -> 2
      [] position = "cli_analyze" -> 3
      [] position = "cli_build" -> 4
      [] position = "analysis" -> 5
      [] position = "select" -> 6
      [] position = "noise_reduction" -> 7
      [] position = "spectral" -> 8
      [] position = "dynamics" -> 9
      [] position = "validation" -> 10
      [] position = "export" -> 11
      [] position = "returned" -> 12
      [] position = "exited" -> 13

\* The operations applied to the original samples are, in this order: noise
\* reduction, the EQ filters, compression, loudness normalization.
ProcessedInOrder(data) ==
    \E nr \in {<<>>, <<"spectral_gating">>, <<"deepfilternet">>},
       eq \in {<<>>, EqApplied(EqBands, audio_file[1].sample_rate)},
       dyn \in {<<>>, <<"compress">>, <<"compress", "normalize">>} :
        data = nr \o eq \o dyn

\* What holds in every state of a run for C22.
OrderInvariant ==
    /\ \A i \in DOMAIN stage_io :
          /\ stage_io[i].name = <<"noise_reduction", "spectral", "dynamics">>[i]
          /\ i > 1 => stage_io[i].before = stage_io[i - 1].after
          /\ ProcessedInOrder(stage_io[i].after.data)
    /\ validated # None =>
          /\ Len(stage_io) = 3
          /\ validated[1].samples = stage_io[3].after.id
          /\ validated[1].samples = samples[1]
          /\ heap[validated[1].samples] = stage_io[3].after.data
    /\ output_metrics # None => validated # None
    /\ (export_attempted \/ saved # None) =>
          /\ output_metrics # None
          /\ saved = validated
          /\ stages[Len(stages)].name \in {"validation", "export"}
    /\ (result # None /\ result[1].success) =>
          /\ result[1].output_metrics = output_metrics
          /\ result[1].output_file[1].samples = saved[1].samples
          /\ heap[saved[1].samples] = stage_io[3].after.data

\* C22: in every run the processing order is noise reduction, then spectral
\* filtering, then dynamics (compression before loudness normalization), then
\* output analysis, then export, with no step repeated or revisited; the
\* exporter is invoked only after the output analysis has completed, and the
\* output metrics of the result describe exactly the buffer handed to the
\* exporter.
C22_OneWayOrder ==
    /\ []OrderInvariant
    /\ [][PositionRank(pc') > PositionRank(pc)]_vars

\* A successful run in which every stage ran: the buffer analyzed, saved and
\* returned holds the four operations in order.
C22_Witness ==
    /\ result # None
    /\ result[1].success
    /\ audio_file[1].sample_rate = 16000
    /\ saved = validated
    /\ heap[saved[1].samples] =
          <<"spectral_gating", "highpass", "low_shelf", "peak", "compress", "normalize">>
    /\ result[1].output_file[1].samples = saved[1].samples

\* C23: the compressor's attack and release lengths in samples, from which
\* the smoothing coefficients are computed, are the configured attack and
\* release times in milliseconds at the sample rate of the buffer processed
\* (10 ms is 480 samples at 48 kHz and 160 samples at 16 kHz).
C23_CompressorTimesAtBufferRate ==
    compressor # None =>
        LET sr == audio_file[1].sample_rate
            c == compressor[1]
        IN /\ c.sr = sr
           /\ c.lengths.attack_samples = (sr * c.settings.attack_ms) \div 1000
           /\ c.lengths.release_samples = (sr * c.settings.release_ms) \div 1000

\* C24: the compressor's static gain curve over the smoothed level in dB is
\* unity gain at or below threshold - knee/2, output = threshold + (level -
\* threshold) / ratio at or above threshold + knee/2, and between the two a
\* quadratic blend: the gain reduction in dB has a constant second difference
\* over equally spaced levels; the gain never exceeds unity.
C24_QuadraticSoftKnee ==
    gr_out # None =>
        LET env == gr_in[1].envelope_db
            thr == 2 * gr_in[1].settings.threshold_db
            knee == 2 * gr_in[1].settings.knee_db
            ratio == gr_in[1].settings.ratio
            gr == gr_out[1]
            InKnee(i) == 2 * env[i] > 2 * thr - knee /\ 2 * env[i] < 2 * thr + knee
        IN /\ \A i \in DOMAIN env :
                 /\ gr[i] <= 0
                 /\ 2 * env[i] <= 2 * thr - knee => gr[i] = 0
                 /\ 2 * env[i] >= 2 * thr + knee =>
                       gr[i] * ratio = (env[i] - thr) * (1 - ratio) * 576
           /\ (\A i \in DOMAIN env : InKnee(i)) =>
                 gr[3] - 2 * gr[2] + gr[1] = gr[4] - 2 * gr[3] + gr[2]

\* The filters a buffer at sample rate sr must have passed, in order.
FiltersBelowNyquist(sr) ==
    (IF sr > 60 THEN <<"highpass">> ELSE <<>>)
        \o (IF sr > 200 THEN <<"low_shelf">> ELSE <<>>)
        \o (IF sr > 6000 THEN <<"peak">> ELSE <<>>)
        \o (IF sr > 24000 THEN <<"high_shelf">> ELSE <<>>)

\* C25: apply_eq applies, in this order, high-pass 30 Hz, low-shelf 100 Hz,
\* peaking 3000 Hz and high-shelf 12000 Hz; at every sample rate a filter whose
\* frequency is at or above sample_rate / 2 returns its input unchanged while
\* the others are still applied; the result has the input's frame count and
\* channel count, and each channel is filtered independently (it holds the
\* filtered samples of the same input channel).
C25_EqOrderAndShape ==
    (eq_out # None /\ eq_out[1].raised = None) =>
        LET in_ == eq_in[1].samples
            out == eq_out[1].ret
        IN /\ out.frames = in_.frames
           /\ Len(out.channels) = Len(in_.channels)
           /\ \A c \in DOMAIN out.channels :
                 /\ out.channels[c].src = c
                 /\ out.channels[c].ops =
                       IF eq_in[1].config.eq_enabled
                       THEN FiltersBelowNyquist(eq_in[1].sr)
                       ELSE <<>>
           /\ (eq_in[1].config.eq_enabled /\ eq_in[1].sr <= 60) => out = in_

\* A stereo buffer at 16 kHz: the 12 kHz shelf is above Nyquist and is
\* skipped, the other three are applied to both channels.
C25_Witness ==
    /\ eq_out # None
    /\ eq_out[1].raised = None
    /\ eq_in[1].sr = 16000
    /\ eq_in[1].config.eq_enabled
    /\ Len(eq_out[1].ret.channels) = 2
    /\ eq_out[1].ret.frames = 64
    /\ eq_out[1].ret.channels[2] = [src |-> 2, ops |-> <<"highpass", "low_shelf", "peak">>]

\* C26: every AudioFile load_audio produces and every output descriptor
\* enhance_audio builds has a bit depth in {8, 16, 24, 32}, and the subtype the
\* exporter writes has the bit depth the output descriptor reports.
C26_BitDepthInRange ==
    /\ bd_loaded # None => bd_loaded[1].bit_depth \in {8, 16, 24, 32}
    /\ bd_output # None => bd_output[1].bit_depth \in {8, 16, 24, 32}
    /\ bd_written # None => SubtypeBits(bd_written[1]) = bd_output[1].bit_depth

\* The noise_reduction stage was executed through the neural path: its record
\* is enabled with method "deepfilternet".
NeuralStageRecorded(result_) ==
    \E k \in DOMAIN result_.processing_stages :
        /\ result_.processing_stages[k].name = "noise_reduction"
        /\ result_.processing_stages[k].enabled
        /\ result_.processing_stages[k].method = "deepfilternet"

\* C27: for every result of enhance_audio, ai_was_used is true exactly when the
\* noise_reduction stage was executed through the neural path, and it agrees
\* with that stage's recorded ai_used parameter; no other stage's method
\* identifier and no skipped stage makes it true.
C27_AiWasUsedIffNeuralStage ==
    result # None =>
        /\ ai_was_used(result[1]) <=> NeuralStageRecorded(result[1])
        /\ \A k \in DOMAIN result[1].processing_stages :
              LET stage == result[1].processing_stages[k]
              IN /\ stage.name = "noise_reduction" =>
                       (stage.ai_used <=> NeuralStageRecorded(result[1]))
                 /\ stage.name # "noise_reduction" => ~stage.ai_used
                 /\ stage.method \in {"librosa", "spectral_gating", "scipy_filters",
                                      "compression_normalization", "quality_check",
                                      "soundfile", "skipped"} =>
                       stage.method \notin MethodsWithAiTag

\* A successful run through the neural path with every later stage executed,
\* and ai_was_used true.
C27_Witness ==
    /\ result # None
    /\ result[1].success
    /\ ai_was_used(result[1])
    /\ Len(result[1].processing_stages) = 6
    /\ result[1].processing_stages[2].method = "deepfilternet"
    /\ result[1].processing_stages[4].method = "compression_normalization"
    /\ result[1].processing_stages[6].method = "soundfile"

\* The run was started in auto mode and select_config has resolved its config.
AutoResolved ==
    /\ user_config # None
    /\ config # None
    /\ input_metrics # None
    /\ user_config[1].quality_level = "auto"
    /\ config[1].quality_level # "auto"

\* C28: in auto mode the resolved strength, EQ flag and dynamics flag depend
\* only on the metrics: every user config that differs from the run's only in
\* noise_reduction_strength, eq_enabled or dynamics_enabled resolves to the
\* same config, and every stage is run or skipped as the preset chosen from the
\* metrics says.
C28_AutoIgnoresStageFlags ==
    AutoResolved =>
        LET preset == Presets[PresetLevel(input_metrics[1])]
        IN /\ \A strength \in {0, DefaultStrength}, eq \in BOOLEAN, dyn \in BOOLEAN :
                 select_config(preset_store, input_metrics[1],
                               [user_config[1] EXCEPT !.noise_reduction_strength = strength,
                                                      !.eq_enabled = eq,
                                                      !.dynamics_enabled = dyn]) = config[1]
           /\ config[1].noise_reduction_strength = preset.noise_reduction_strength
           /\ config[1].eq_enabled = preset.eq_enabled
           /\ config[1].dynamics_enabled = preset.dynamics_enabled
           /\ \A k \in DOMAIN stages :
                 /\ stages[k].name = "noise_reduction" =>
                       (stages[k].enabled <=> preset.noise_reduction_strength > 0)
                 /\ stages[k].name = "spectral" => (stages[k].enabled <=> preset.eq_enabled)
                 /\ stages[k].name = "dynamics" =>
                       (stages[k].enabled <=> preset.dynamics_enabled)

\* An auto run whose caller switched off noise reduction, EQ and dynamics, and
\* in which all three stages ran.
C28_Witness ==
    /\ AutoResolved
    /\ user_config[1].noise_reduction_strength = 0
    /\ ~user_config[1].eq_enabled
    /\ ~user_config[1].dynamics_enabled
    /\ result # None
    /\ result[1].success
    /\ Len(stages) = 6
    /\ stages[2].name = "noise_reduction" /\ stages[2].enabled
    /\ stages[3].name = "spectral" /\ stages[3].enabled
    /\ stages[4].name = "dynamics" /\ stages[4].enabled

\* C29: in auto mode the neural path is attempted only when the selector
\* resolved to the aggressive preset: a run resolved to minimal, light or
\* standard never requests it (use_ai is false) and never enters it.
C29_AutoNeuralOnlyAggressive ==
    (AutoResolved /\ config[1].quality_level \in {"minimal", "light", "standard"}) =>
        /\ ~neural_attempted
        /\ nr_call # None => ~nr_call[1].use_ai
        /\ \A k \in DOMAIN stages : stages[k].method # "deepfilternet"

\* An auto run resolved to light on an input whose SNR alone would warrant AI,
\* with AI enabled by the caller and the library present: noise reduction ran
\* without requesting the neural path.
C29_Witness ==
    /\ AutoResolved
    /\ config[1].quality_level = "light"
    /\ needs_ai_enhancement(input_metrics[1])
    /\ user_config[1].ai_enhancement_enabled
    /\ nr_call # None
    /\ nr_call[1].env.lib
    /\ ~nr_call[1].use_ai
    /\ ~neural_attempted
    /\ Len(stages) >= 2
    /\ stages[2].method = "spectral_gating"

\* C30: for every combination of CLI options the config _build_config hands
\* to enhance_audio has preserve_dynamics = true, so a run started through the
\* CLI always compresses with the gentle settings (threshold -18 dB, ratio 2:1).
C30_CliAlwaysGentle ==
    mode = "cli" =>
        /\ user_config # None => user_config[1].preserve_dynamics
        /\ config # None => config[1].preserve_dynamics
        /\ compressor # None =>
              /\ compressor[1].settings.threshold_db = -18
              /\ compressor[1].settings.ratio = 2

====
